---- MODULE Spec2Model ----
(***************************************************************************)
(* Model of forgezip's compression engine (src/src/core/compression/       *)
(* engine.ts): the Engine API calls, the 7-Zip subprocess they drive, the  *)
(* listing parser and the result normalizer.                               *)
(*                                                                         *)
(* A JavaScript string is a TLA+ string, read as a sequence of characters   *)
(* with Len, SubSeq and \o, so that trim, split and join are computed as   *)
(* the code computes them.                                                 *)
(***************************************************************************)
EXTENDS Integers, Sequences, FiniteSets, TLC

VARIABLES
    fsys,       \* the paths that exist on disk (absolute, as segment sequences)
    nextTemp,   \* number of temporary directories mkdtemp has created so far
    calls,      \* per call slot: the state of one Engine API call
    fn,         \* pure-function harness: the function under evaluation
    input,      \* pure-function harness: its arguments
    output      \* pure-function harness: its result, or Pending

vars == <<fsys, nextTemp, calls, fn, input, output>>

(***************************************************************************)
(* Bounds of the model.                                                    *)
(***************************************************************************)
MaxPre == 2        \* hand-picked chunks in front of a bulk stream
MaxChunks == 2     \* data events per stream of one subprocess
MaxTemp == 2       \* temporary directories created in one behaviour
MaxBlocks == 3     \* blocks of a listing given to the parser on its own
MaxList == 3       \* blocks of a listing whose result is summed on its own
MaxEntries == 2    \* entries of a payload given to the argument builders on their own
MaxStores == 2     \* storeSecret calls on one vault in one behaviour

(***************************************************************************)
(* Strings.                                                                *)
(***************************************************************************)
\* String.prototype.trim strips these (the members that occur in the model).
WhiteSpace == {" ", "\t", "\n", "\r"}

\* s[i], 1-based; "" outside the string
CharAt(s, i) == IF i >= 1 /\ i <= Len(s) THEN SubSeq(s, i, i) ELSE ""

Min(S) == CHOOSE x \in S : \A y \in S : x <= y
Max(S) == CHOOSE x \in S : \A y \in S : x >= y

\* s.trim()
Trim(s) ==
    LET keep == {i \in 1..Len(s) : CharAt(s, i) \notin WhiteSpace}
    IN  IF keep = {} THEN "" ELSE SubSeq(s, Min(keep), Max(keep))

RECURSIVE Join(_)
\* chunks.join('')
Join(chunks) ==
    IF chunks = <<>> THEN "" ELSE Head(chunks) \o Join(Tail(chunks))

\* array.slice(-n)
SliceLast(arr, n) ==
    IF Len(arr) <= n THEN arr ELSE SubSeq(arr, Len(arr) - n + 1, Len(arr))

\* lines.map((line) => line.trim())
TrimAll(arr) == [i \in 1..Len(arr) |-> Trim(arr[i])]

\* Boolean(s) of a string: the empty string is falsy
Truthy(s) == s # ""

\* The length of the separator match that starts at position i of s, 0 when
\* there is none, for the three separators the engine splits on:
\*   "blank"  /\r?\n\r?\n/      "line"  /\r?\n/      "eq"  ' = '
MatchLen(kind, s, i) ==
    LET nl(j) == CharAt(s, j) = "\n"
        cr(j) == CharAt(s, j) = "\r"
        \* /\r?\n/ at j: the greedy \r? is taken when a \n follows it
        eol(j) == IF cr(j) /\ nl(j + 1) THEN 2 ELSE IF nl(j) THEN 1 ELSE 0
    IN  CASE kind = "blank" ->
               IF eol(i) > 0 /\ eol(i + eol(i)) > 0
               THEN eol(i) + eol(i + eol(i)) ELSE 0
          [] kind = "line" -> eol(i)
          [] kind = "eq" ->
               IF i + 2 <= Len(s) /\ SubSeq(s, i, i + 2) = " = " THEN 3 ELSE 0

RECURSIVE Split(_, _)
\* s.split(separator): the leftmost match first, matches never overlapping;
\* a string without a match is returned whole (also the empty string).
Split(kind, s) ==
    LET hits == {i \in 1..Len(s) : MatchLen(kind, s, i) > 0}
    IN  IF hits = {} THEN <<s>>
        ELSE LET i == Min(hits)
                 n == MatchLen(kind, s, i)
             IN  <<SubSeq(s, 1, i - 1)>> \o Split(kind, SubSeq(s, i + n, Len(s)))

\* s.split(/[/\\]/) and the single-character splits of the path module
RECURSIVE SplitChars(_, _)
SplitChars(seps, s) ==
    LET hits == {i \in 1..Len(s) : CharAt(s, i) \in seps}
    IN  IF hits = {} THEN <<s>>
        ELSE LET i == Min(hits)
             IN  <<SubSeq(s, 1, i - 1)>> \o SplitChars(seps, SubSeq(s, i + 1, Len(s)))

RECURSIVE JoinWith(_, _)
\* parts.join(sep)
JoinWith(parts, sep) ==
    IF parts = <<>> THEN ""
    ELSE IF Len(parts) = 1 THEN Head(parts)
    ELSE Head(parts) \o sep \o JoinWith(Tail(parts), sep)

(***************************************************************************)
(* Paths (node:path, POSIX flavour) and the file system.                   *)
(***************************************************************************)
\* process.cwd() and os.tmpdir()
Cwd == "/w"
TmpDir == "/tmp"

RECURSIVE NormalizeSegments(_, _)
\* The segment walk of path.resolve / path.normalize on an absolute path:
\* "" and "." are dropped, ".." removes the segment before it (none at root).
NormalizeSegments(segs, acc) ==
    IF segs = <<>> THEN acc
    ELSE LET h == Head(segs)
         IN  IF h = "" \/ h = "." THEN NormalizeSegments(Tail(segs), acc)
             ELSE IF h = ".."
                  THEN NormalizeSegments(Tail(segs),
                           IF acc = <<>> THEN acc ELSE SubSeq(acc, 1, Len(acc) - 1))
                  ELSE NormalizeSegments(Tail(segs), Append(acc, h))

IsAbsolute(p) == CharAt(p, 1) = "/"

\* path.resolve(p)
PathResolve(p) ==
    LET full == IF IsAbsolute(p) THEN p ELSE Cwd \o "/" \o p
    IN  "/" \o JoinWith(NormalizeSegments(SplitChars({"/"}, full), <<>>), "/")

\* The proper ancestors of an absolute, normalized path, root excluded.
Ancestors(p) ==
    LET segs == NormalizeSegments(SplitChars({"/"}, p), <<>>)
    IN  {"/" \o JoinWith(SubSeq(segs, 1, k), "/") : k \in 1..(Len(segs) - 1)}

\* fs.existsSync(p): true of any kind of directory entry
existsSync(fs, p) == p \in DOMAIN fs

\* Whether fsPromises.mkdir(p, {recursive: true}) succeeds: p is a directory
\* already, or nothing on the way to p is a regular file.
MkdirCanSucceed(fs, p) ==
    \A q \in Ancestors(p) \cup {p} : q \in DOMAIN fs => fs[q] = "dir"

\* The file system after a successful fsPromises.mkdir(p, {recursive: true})
MkdirRecursive(fs, p) ==
    LET made == (Ancestors(p) \cup {p}) \ DOMAIN fs
    IN  [q \in DOMAIN fs \cup made |-> IF q \in made THEN "dir" ELSE fs[q]]

(***************************************************************************)
(* Result normalizer.                                                      *)
(***************************************************************************)
LogLimit == 200

\* Faulty variant of buildCommandResult: keeps the first LogLimit entries.
buildCommandResultKeepFirst(success, message, stdout, stderr) ==
    LET all == SelectSeq(TrimAll(stdout \o stderr), Truthy)
    IN  [success |-> success, message |-> message,
         logs |-> IF Len(all) <= LogLimit THEN all ELSE SubSeq(all, 1, LogLimit)]

buildCommandResult(success, message, stdout, stderr) ==
    LET logs == SliceLast(SelectSeq(TrimAll(stdout \o stderr), Truthy), LogLimit)
    IN  [success |-> success, message |-> message, logs |-> logs]

(***************************************************************************)
(* Listing parser.                                                         *)
(***************************************************************************)
Digits == "0123456789"
HexDigits == "0123456789abcdef"

\* The position of the one-character string ch in alphabet, 0 when absent
IndexIn(alphabet, ch) ==
    LET at == {i \in 1..Len(alphabet) : SubSeq(alphabet, i, i) = ch}
    IN  IF at = {} \/ Len(ch) # 1 THEN 0 ELSE Min(at)

AllIn(alphabet, s) == \A i \in 1..Len(s) : IndexIn(alphabet, CharAt(s, i)) > 0

RECURSIVE ValueIn(_, _, _)
\* The value of the digit string s in the given base, most significant first
ValueIn(alphabet, s, acc) ==
    IF s = "" THEN acc
    ELSE ValueIn(alphabet, Tail(s),
                 acc * Len(alphabet) + IndexIn(alphabet, Head(s)) - 1)

\* Number(s) || 0 for the texts made of white space, a sign, decimal digits
\* and the 0x prefix (no text of the model has a fraction, an exponent or
\* Infinity): Number of blank text is 0, of a signed decimal or unsigned hex
\* literal its value, of any other such text NaN, and NaN || 0 is 0.
NumberOrZero(s) ==
    LET t == Trim(s)
        body == IF CharAt(t, 1) \in {"-", "+"} THEN Tail(t) ELSE t
        lower == [i \in 1..Len(t) |->
                    IF CharAt(t, i) = "X" THEN "x" ELSE CharAt(t, i)]
    IN  IF body # "" /\ AllIn(Digits, body)
        THEN IF CharAt(t, 1) = "-" THEN 0 - ValueIn(Digits, body, 0)
             ELSE ValueIn(Digits, body, 0)
        ELSE IF Len(t) > 2 /\ CharAt(t, 1) = "0" /\ lower[2] = "x"
                /\ AllIn(HexDigits, SubSeq(t, 3, Len(t)))
             THEN ValueIn(HexDigits, SubSeq(t, 3, Len(t)), 0)
             ELSE 0

RECURSIVE BlockMap(_, _)
\* The key/value map of one block: every line with a non-empty key and at
\* least one ' = ' sets key.trim() to the trimmed rest; a later line wins.
BlockMap(lines, map) ==
    IF lines = <<>> THEN map
    ELSE LET parts == Split("eq", Head(lines))
             key == Head(parts)
             rest == Tail(parts)
         IN  IF key = "" \/ rest = <<>> THEN BlockMap(Tail(lines), map)
             ELSE LET k == Trim(key)
                      v == Trim(JoinWith(rest, " = "))
                  IN  BlockMap(Tail(lines),
                          [x \in DOMAIN map \cup {k} |-> IF x = k THEN v ELSE map[x]])

EmptyMap == [x \in {} |-> ""]

\* map.get(key) ?? fallback
MapGetOr(map, key, fallback) == IF key \in DOMAIN map THEN map[key] ELSE fallback

\* Faulty variant of EntryName: the first segment is taken instead of the last.
EntryNameFirstSegment(relativePath) ==
    LET segs == SelectSeq(SplitChars({"/", "\\"}, relativePath), Truthy)
    IN  IF segs = <<>> THEN relativePath ELSE segs[1]

\* relativePath.split(/[/\\]/).filter(Boolean).pop() ?? relativePath
EntryName(relativePath) ==
    LET segs == SelectSeq(SplitChars({"/", "\\"}, relativePath), Truthy)
    IN  IF segs = <<>> THEN relativePath ELSE segs[Len(segs)]

\* Faulty variant of Includes: the character is looked for in first place only.
IncludesAtStart(s, ch) == CharAt(s, 1) = ch

\* s.includes(ch)
Includes(s, ch) == \E i \in 1..Len(s) : CharAt(s, i) = ch

\* The entry of one block, as a sequence of zero or one entries.
\* Faulty variant of BlockEntries: the archive's own block is not filtered out.
BlockEntriesKeepArchive(block, archivePath) ==
    LET trimmed == Trim(block)
        map == BlockMap(Split("line", trimmed), EmptyMap)
        relativePath == MapGetOr(map, "Path", "")
    IN  IF trimmed = "" \/ relativePath = "" THEN <<>>
        ELSE <<[id |-> relativePath, path |-> relativePath,
                name |-> EntryName(relativePath),
                size |-> NumberOrZero(MapGetOr(map, "Size", "")),
                compressedSize |-> NumberOrZero(MapGetOr(map, "Packed Size", "")),
                modified |-> MapGetOr(map, "Modified", ""),
                isDirectory |-> Includes(MapGetOr(map, "Folder", ""), "+")]>>

\* Faulty variant of BlockEntries: a block without a usable Path still yields an entry.
BlockEntriesNoPathCheck(block, archivePath) ==
    LET trimmed == Trim(block)
        map == BlockMap(Split("line", trimmed), EmptyMap)
        relativePath == MapGetOr(map, "Path", "")
    IN  IF trimmed = "" \/ relativePath = archivePath THEN <<>>
        ELSE <<[id |-> relativePath, path |-> relativePath,
                name |-> EntryName(relativePath),
                size |-> NumberOrZero(MapGetOr(map, "Size", "")),
                compressedSize |-> NumberOrZero(MapGetOr(map, "Packed Size", "")),
                modified |-> MapGetOr(map, "Modified", ""),
                isDirectory |-> Includes(MapGetOr(map, "Folder", ""), "+")]>>

\* One iteration of parseListOutput's loop over the blocks.
BlockEntries(block, archivePath) ==
    LET trimmed == Trim(block)
        map == BlockMap(Split("line", trimmed), EmptyMap)
        \* map.get('Path'): undefined and '' are both falsy
        relativePath == MapGetOr(map, "Path", "")
    IN  IF trimmed = "" THEN <<>>
        ELSE IF relativePath = "" \/ relativePath = archivePath THEN <<>>
        ELSE <<[id |-> relativePath, path |-> relativePath,
                name |-> EntryName(relativePath),
                size |-> NumberOrZero(MapGetOr(map, "Size", "")),
                compressedSize |-> NumberOrZero(MapGetOr(map, "Packed Size", "")),
                modified |-> MapGetOr(map, "Modified", ""),
                isDirectory |-> Includes(MapGetOr(map, "Folder", ""), "+")]>>

RECURSIVE ParseBlocks(_, _)
ParseBlocks(blocks, archivePath) ==
    IF blocks = <<>> THEN <<>>
    ELSE BlockEntries(Head(blocks), archivePath)
             \o ParseBlocks(Tail(blocks), archivePath)

parseListOutput(raw, archivePath) ==
    ParseBlocks(Split("blank", raw), archivePath)

(***************************************************************************)
(* Command builder.                                                        *)
(***************************************************************************)
\* An optional field of a payload: None is undefined, Some(v) a given value.
None == <<>>
Some(v) == <<v>>
IsSome(o) == o # <<>>
ValueOf(o) == o[1]

UpperCase == "ABCDEFGHIJKLMNOPQRSTUVWXYZ"
LowerCase == "abcdefghijklmnopqrstuvwxyz"

RECURSIVE ToLowerCase(_)
\* s.toLowerCase()
ToLowerCase(s) ==
    IF s = "" THEN ""
    ELSE LET k == IndexIn(UpperCase, Head(s))
         IN  (IF k > 0 THEN SubSeq(LowerCase, k, k) ELSE Head(s))
                 \o ToLowerCase(Tail(s))

\* path.extname(p): from the last '.' of the last segment to its end, '' when
\* there is none or the segment starts with its only '.'
ExtName(p) ==
    LET segs == SelectSeq(SplitChars({"/"}, p), Truthy)
        base == IF segs = <<>> THEN "" ELSE segs[Len(segs)]
        dots == {i \in 1..Len(base) : CharAt(base, i) = "."}
    IN  IF dots = {} \/ Max(dots) = 1 THEN ""
        ELSE SubSeq(base, Max(dots), Len(base))

DEFAULT_FORMAT == "7z"

\* Faulty variant of formatFromArchivePath: the extension is compared as written.
formatFromArchivePathCaseSensitive(archivePath) ==
    LET dotted == ExtName(archivePath)
        ext == IF dotted = "" THEN "" ELSE Tail(dotted)
    IN  IF ext = "zip" THEN "zip"
        ELSE IF ext = "7z" THEN "7z"
        ELSE IF ext = "tar" THEN "tar"
        ELSE IF ext = "gz" \/ ext = "tgz" THEN "tar"
        ELSE DEFAULT_FORMAT

formatFromArchivePath(archivePath) ==
    LET dotted == ExtName(archivePath)
        \* .replace('.', '') removes the first '.', which leads the extension
        ext == ToLowerCase(IF dotted = "" THEN "" ELSE Tail(dotted))
    IN  IF ext = "zip" THEN "zip"
        ELSE IF ext = "7z" THEN "7z"
        ELSE IF ext = "tar" THEN "tar"
        ELSE IF ext = "gz" \/ ext = "tgz" THEN "tar"
        ELSE DEFAULT_FORMAT

RECURSIVE StripLeadingSeparators(_)
StripLeadingSeparators(entry) ==
    IF CharAt(entry, 1) \in {"/", "\\"} THEN StripLeadingSeparators(Tail(entry))
    ELSE entry

\* Faulty variant of normalizeEntryPath: one leading separator is removed.
normalizeEntryPathOnce(entry) ==
    IF CharAt(entry, 1) \in {"/", "\\"} THEN Tail(entry) ELSE entry

\* entry.replace(/^[/\\]+/, '')
normalizeEntryPath(entry) == StripLeadingSeparators(entry)

\* entries.map(normalizeEntryPath)
NormalizeAll(entries) == [i \in 1..Len(entries) |-> normalizeEntryPath(entries[i])]

\* The argument vectors handed to run7zip.
ListArgs(resolvedPath) == <<"l", "-slt", "-ba", resolvedPath>>

\* Faulty variant of AddArgs: a level is emitted also when none was given.
AddArgsDefaultLevel(payload, targetPath, files) ==
    LET format == IF IsSome(payload.format) THEN ValueOf(payload.format)
                  ELSE formatFromArchivePath(targetPath)
        level == IF IsSome(payload.compressionLevel)
                 THEN ValueOf(payload.compressionLevel) ELSE 5
    IN  <<"a", "-mx=" \o ToString(level), "-t" \o format, "-y", targetPath>> \o files

AddArgs(payload, targetPath, files) ==
    LET format == IF IsSome(payload.format) THEN ValueOf(payload.format)
                  ELSE formatFromArchivePath(targetPath)
        args == <<"a", "-t" \o format, "-y", targetPath>> \o files
    IN  \* if (payload.compressionLevel): undefined and 0 are falsy
        IF IsSome(payload.compressionLevel) /\ ValueOf(payload.compressionLevel) # 0
        THEN <<Head(args), "-mx=" \o ToString(ValueOf(payload.compressionLevel))>>
                 \o Tail(args)
        ELSE args

\* payload.entries?.length, as a number (0 when entries is undefined)
EntriesLength(payload) ==
    IF IsSome(payload.entries) THEN Len(ValueOf(payload.entries)) ELSE 0

\* Faulty variant of ExtractArgs: the requested entries are not passed on.
ExtractArgsWholeArchive(payload, archivePath, destination) ==
    <<"x", archivePath, "-o" \o destination, "-y">>

ExtractArgs(payload, archivePath, destination) ==
    <<"x", archivePath, "-o" \o destination, "-y">>
        \o (IF EntriesLength(payload) > 0
            THEN NormalizeAll(ValueOf(payload.entries))
            ELSE <<>>)

DeleteArgs(payload, archivePath) ==
    <<"d", archivePath>> \o NormalizeAll(ValueOf(payload.entries))

TestArgs(resolvedPath) == <<"t", resolvedPath>>

PreviewArgs(archivePath, entry, tempDir) ==
    <<"x", archivePath, entry, "-o" \o tempDir, "-y">>

\* path.join(a, b) for an absolute a: the segments are normalized and a
\* trailing separator of the joined text is kept.
PathJoin(a, b) ==
    LET joined == IF b = "" THEN a ELSE a \o "/" \o b
        body == "/" \o JoinWith(NormalizeSegments(SplitChars({"/"}, joined), <<>>), "/")
    IN  IF body # "/" /\ CharAt(joined, Len(joined)) = "/" THEN body \o "/"
        ELSE body

\* The directory the n-th fsPromises.mkdtemp of a behaviour creates: the
\* prefix plus a suffix no earlier call received.
TempDirName(n) == PathJoin(TmpDir, "forgezip-preview-") \o ToString(n)

(***************************************************************************)
(* Process runner and Engine API: the state of one call.                   *)
(***************************************************************************)
Calls == {"c1"}

Ops == {"list", "add", "extract", "delete", "test", "preview"}

NoPayload ==
    [archivePath |-> "", files |-> <<>>, format |-> None,
     compressionLevel |-> None, destination |-> "", entries |-> None,
     entryPath |-> ""]

\* pc:        idle, mkdir (awaiting fsPromises.mkdir), mkdtemp (awaiting
\*            fsPromises.mkdtemp), running (awaiting run7zip), done
\* spawned:   subprocesses this call has launched
\* child:     none, running, errored (the 'error' event was emitted), closed
\* promise:   the promise of run7zip: none, pending, resolved, rejected
\* exitCode:  the code the 'close' event carried (None is null)
\* code:      the code of the resolved SevenZipResult
\* outcome:   none, returned (value is the result), threw (value.error)
\* settledBy: the step that produced the outcome: precheck, prepare (mkdir
\*            or mkdtemp failed), error ('error' event), close ('close' event)
IdleCall ==
    [pc |-> "idle", op |-> "none", payload |-> NoPayload,
     archivePath |-> "", destination |-> "", tempDir |-> "", entry |-> "",
     spawned |-> 0, args |-> <<>>, child |-> "none",
     stdout |-> <<>>, stderr |-> <<>>, launchError |-> "",
     promise |-> "none", exitCode |-> None, code |-> 0,
     outcome |-> "none", value |-> [error |-> ""], settledBy |-> "none"]

\* throw new Error(message): the call is over
Throw(call, message, by) ==
    [call EXCEPT !.pc = "done", !.outcome = "threw",
                 !.value = [error |-> message], !.settledBy = by]

\* return value: the call is over
Return(call, value) ==
    [call EXCEPT !.pc = "done", !.outcome = "returned",
                 !.value = value, !.settledBy = "close"]

\* run7zip up to the point where the promise is returned: the child is
\* spawned with the encoding switch in front of the arguments.
Run7zip(call, args) ==
    [call EXCEPT !.pc = "running", !.spawned = @ + 1,
                 !.args = <<"-sccUTF-8">> \o args,
                 !.child = "running", !.promise = "pending"]

(***************************************************************************)
(* The inputs the calls and the subprocess are given.                      *)
(***************************************************************************)
\* The disk before the first call: the archive /w/a.7z exists, /m.zip does not.
InitialFiles ==
    [q \in {"/tmp", "/w", "/w/a.7z"} |-> IF q = "/w/a.7z" THEN "file" ELSE "dir"]

ArchivePaths == {"a.7z", "/m.zip"}
FileLists == {<<>>, <<"f.txt">>}
Formats == {None, Some("zip")}
Levels == {None, Some(5)}
Destinations == {"out", "/w/a.7z"}
ExtractEntries == {None, Some(<<>>), Some(<<"/x", "y">>)}
DeleteEntries == {<<>>, <<"/x">>}
EntryPaths == {"/x", "d/e"}

\* What the subprocess may write and how it may end; None is the null code
\* of a child ended by a signal.
StdoutChunks == {"Path = /w/a.7z\n\n", "Path = x\nSize = 1\n"}
StderrChunks == {"\n", " E "}
ExitCodes == {Some(0), Some(2), None}
LaunchErrors == {"spawn 7za ENOENT", "spawn 7za EACCES"}

(***************************************************************************)
(* Engine API: each call up to its first await.                            *)
(***************************************************************************)
\* payload.files.map((file) => path.resolve(file))
ResolveAll(files) == [i \in 1..Len(files) |-> PathResolve(files[i])]

SetCall(c, call) == calls' = [calls EXCEPT ![c] = call]

Begin(c, op, payload) ==
    [calls[c] EXCEPT !.op = op, !.payload = payload,
                     !.archivePath = PathResolve(payload.archivePath)]

ListCall(c, archivePath) ==
    LET call == Begin(c, "list", [NoPayload EXCEPT !.archivePath = archivePath])
    IN  /\ calls[c].pc = "idle"
        /\ IF ~existsSync(fsys, call.archivePath)
           THEN SetCall(c, Throw(call, "Archive not found at " \o call.archivePath,
                                 "precheck"))
           ELSE SetCall(c, Run7zip(call, ListArgs(call.archivePath)))
        /\ UNCHANGED <<fsys, nextTemp, fn, input, output>>

\* Faulty variant of AddCall: an empty files list is passed on to the subprocess.
AddCallUnchecked(c, payload) ==
    LET call == Begin(c, "add", payload)
        files == ResolveAll(payload.files)
    IN  /\ calls[c].pc = "idle"
        /\ SetCall(c, Run7zip(call, AddArgs(payload, call.archivePath, files)))
        /\ UNCHANGED <<fsys, nextTemp, fn, input, output>>

AddCall(c, payload) ==
    LET call == Begin(c, "add", payload)
        files == ResolveAll(payload.files)
    IN  /\ calls[c].pc = "idle"
        /\ IF Len(files) = 0
           THEN SetCall(c, Throw(call, "No files selected to add", "precheck"))
           ELSE SetCall(c, Run7zip(call, AddArgs(payload, call.archivePath, files)))
        /\ UNCHANGED <<fsys, nextTemp, fn, input, output>>

\* Faulty variant of ExtractCall: the destination is created before the archive is
\* looked for.
ExtractCallMkdirFirst(c, payload) ==
    LET call == Begin(c, "extract", payload)
        destination == PathResolve(payload.destination)
    IN  /\ calls[c].pc = "idle"
        /\ MkdirCanSucceed(fsys, destination)
        /\ fsys' = MkdirRecursive(fsys, destination)
        /\ IF ~existsSync(fsys, call.archivePath)
           THEN SetCall(c, Throw(call, "Archive not found at " \o call.archivePath,
                                 "precheck"))
           ELSE SetCall(c, [call EXCEPT !.pc = "mkdir", !.destination = destination])
        /\ UNCHANGED <<nextTemp, fn, input, output>>

ExtractCall(c, payload) ==
    LET call == Begin(c, "extract", payload)
    IN  /\ calls[c].pc = "idle"
        /\ IF ~existsSync(fsys, call.archivePath)
           THEN SetCall(c, Throw(call, "Archive not found at " \o call.archivePath,
                                 "precheck"))
           ELSE SetCall(c, [call EXCEPT !.pc = "mkdir",
                               !.destination = PathResolve(payload.destination)])
        /\ UNCHANGED <<fsys, nextTemp, fn, input, output>>

\* fsPromises.mkdir(destination, {recursive: true}) settles; on success the
\* call builds its arguments and spawns.
ExtractMkdir(c) ==
    LET call == calls[c]
    IN  /\ call.pc = "mkdir"
        /\ IF MkdirCanSucceed(fsys, call.destination)
           THEN /\ fsys' = MkdirRecursive(fsys, call.destination)
                /\ SetCall(c, Run7zip(call,
                       ExtractArgs(call.payload, call.archivePath, call.destination)))
           ELSE /\ fsys' = fsys
                /\ SetCall(c, Throw(call,
                       "EEXIST: file already exists, mkdir '" \o call.destination \o "'",
                       "prepare"))
        /\ UNCHANGED <<nextTemp, fn, input, output>>

DeleteCall(c, payload) ==
    LET call == Begin(c, "delete", payload)
    IN  /\ calls[c].pc = "idle"
        /\ IF Len(ValueOf(payload.entries)) = 0
           THEN SetCall(c, Throw(call, "No entries selected for deletion", "precheck"))
           ELSE SetCall(c, Run7zip(call, DeleteArgs(payload, call.archivePath)))
        /\ UNCHANGED <<fsys, nextTemp, fn, input, output>>

TestCall(c, archivePath) ==
    LET call == Begin(c, "test", [NoPayload EXCEPT !.archivePath = archivePath])
    IN  /\ calls[c].pc = "idle"
        /\ IF ~existsSync(fsys, call.archivePath)
           THEN SetCall(c, Throw(call, "Archive not found at " \o call.archivePath,
                                 "precheck"))
           ELSE SetCall(c, Run7zip(call, TestArgs(call.archivePath)))
        /\ UNCHANGED <<fsys, nextTemp, fn, input, output>>

PreviewCall(c, payload) ==
    LET call == Begin(c, "preview", payload)
    IN  /\ calls[c].pc = "idle"
        /\ SetCall(c, [call EXCEPT !.pc = "mkdtemp",
                           !.entry = normalizeEntryPath(payload.entryPath)])
        /\ UNCHANGED <<fsys, nextTemp, fn, input, output>>

\* Faulty variant of PreviewMkdtemp: every preview extracts into the same directory.
PreviewMkdtempShared(c) ==
    LET call == calls[c]
        tempDir == TempDirName(1)
    IN  /\ call.pc = "mkdtemp"
        /\ nextTemp < MaxTemp
        /\ nextTemp' = nextTemp + 1
        /\ fsys' = [q \in DOMAIN fsys \cup {tempDir} |->
                       IF q = tempDir THEN "dir" ELSE fsys[q]]
        /\ SetCall(c, Run7zip([call EXCEPT !.tempDir = tempDir],
                              PreviewArgs(call.archivePath, call.entry, tempDir)))
        /\ UNCHANGED <<fn, input, output>>

\* fsPromises.mkdtemp(prefix) settles: a directory no earlier call was given
\* is created, and the call spawns.
PreviewMkdtemp(c) ==
    LET call == calls[c]
        tempDir == TempDirName(nextTemp + 1)
    IN  /\ call.pc = "mkdtemp"
        /\ nextTemp < MaxTemp
        /\ nextTemp' = nextTemp + 1
        /\ fsys' = [q \in DOMAIN fsys \cup {tempDir} |->
                       IF q = tempDir THEN "dir" ELSE fsys[q]]
        /\ SetCall(c, Run7zip([call EXCEPT !.tempDir = tempDir],
                              PreviewArgs(call.archivePath, call.entry, tempDir)))
        /\ UNCHANGED <<fn, input, output>>

(***************************************************************************)
(* Result of a call once run7zip has resolved.                             *)
(***************************************************************************)
\* Faulty variant of ErrorMessage: the joined stderr text is not trimmed.
ErrorMessageUntrimmed(stderr, fallback) ==
    IF Join(stderr) # "" THEN Join(stderr) ELSE fallback

\* stderr.join('').trim() || fallback
ErrorMessage(stderr, fallback) ==
    LET text == Trim(Join(stderr))
    IN  IF text # "" THEN text ELSE fallback

RECURSIVE SumOf(_, _)
\* entries.reduce((sum, entry) => sum + entry[field], 0)
SumOf(entries, field) ==
    IF entries = <<>> THEN 0
    ELSE Head(entries)[field] + SumOf(Tail(entries), field)

\* Faulty variant of ListResult: the totals leave the directories out.
ListResultFilesOnly(resolvedPath, stdout) ==
    LET entries == parseListOutput(Join(stdout), resolvedPath)
        isFile(e) == ~e.isDirectory
        files == SelectSeq(entries, isFile)
    IN  [stats |-> [archivePath |-> resolvedPath,
                    format |-> formatFromArchivePath(resolvedPath),
                    entries |-> Len(entries),
                    totalSize |-> SumOf(files, "size"),
                    totalCompressedSize |-> SumOf(files, "compressedSize")],
         entries |-> entries]

ListResult(resolvedPath, stdout) ==
    LET entries == parseListOutput(Join(stdout), resolvedPath)
    IN  [stats |-> [archivePath |-> resolvedPath,
                    format |-> formatFromArchivePath(resolvedPath),
                    entries |-> Len(entries),
                    totalSize |-> SumOf(entries, "size"),
                    totalCompressedSize |-> SumOf(entries, "compressedSize")],
         entries |-> entries]

\* Faulty variant of TestResult: a failed test is thrown like the other operations'.
TestResultThrowing(call, code) ==
    IF code # 0
    THEN Throw(call, ErrorMessage(call.stderr, "Archive failed integrity test"), "close")
    ELSE Return(call, buildCommandResult(TRUE, "Archive passed integrity test",
                                         call.stdout, call.stderr))

\* testArchiveIntegrity after its await
TestResult(call, code) ==
    LET success == code = 0
        message == IF success THEN "Archive passed integrity test"
                   ELSE "Archive failed integrity test"
    IN  Return(call, buildCommandResult(success, message, call.stdout, call.stderr))

\* The rest of each Engine API function after `await run7zip(args)` resolved
\* with the given code.
\* Faulty variant of Finish: a failed subprocess is launched once more.
FinishWithRetry(call, code) ==
    IF code # 0 /\ call.spawned < 2
    THEN Run7zip([call EXCEPT !.stdout = <<>>, !.stderr = <<>>], Tail(call.args))
    ELSE Return(call, buildCommandResult(TRUE, "", call.stdout, call.stderr))

Finish(call, code) ==
    CASE call.op = "list" ->
           IF code # 0
           THEN Throw(call, ErrorMessage(call.stderr, "Unable to list archive contents"),
                      "close")
           ELSE Return(call, ListResult(call.archivePath, call.stdout))
      [] call.op = "add" ->
           IF code # 0
           THEN Throw(call, ErrorMessage(call.stderr, "Unable to add files to archive"),
                      "close")
           ELSE Return(call, buildCommandResult(TRUE,
                    "Added " \o ToString(Len(call.payload.files)) \o " item(s)",
                    call.stdout, call.stderr))
      [] call.op = "extract" ->
           IF code # 0
           THEN Throw(call, ErrorMessage(call.stderr, "Unable to extract archive"),
                      "close")
           ELSE LET label == IF EntriesLength(call.payload) > 0
                             THEN "Extracted " \o ToString(EntriesLength(call.payload))
                                      \o " item(s)"
                             ELSE "Extracted entire archive"
                IN  Return(call, buildCommandResult(TRUE,
                        label \o " to " \o call.destination, call.stdout, call.stderr))
      [] call.op = "delete" ->
           IF code # 0
           THEN Throw(call, ErrorMessage(call.stderr, "Unable to delete selected entries"),
                      "close")
           ELSE Return(call, buildCommandResult(TRUE,
                    "Deleted " \o ToString(Len(ValueOf(call.payload.entries)))
                        \o " item(s)",
                    call.stdout, call.stderr))
      [] call.op = "test" -> TestResult(call, code)
      [] call.op = "preview" ->
           IF code # 0
           THEN Throw(call, ErrorMessage(call.stderr, "Unable to extract preview"),
                      "close")
           ELSE Return(call,
                    [success |-> TRUE,
                     message |-> "Preview ready for " \o call.entry,
                     logs |-> buildCommandResult(TRUE, "", call.stdout, call.stderr).logs,
                     extractedPath |-> PathJoin(call.tempDir, call.entry)])

(***************************************************************************)
(* Process runner: the events of the child.                                *)
(***************************************************************************)
\* child.stdout 'data': stdout.push(chunk.toString())
\* Faulty variant of StdoutData: the chunks are collected in one buffer that all
\* running calls share.
StdoutDataShared(c, chunk) ==
    /\ calls[c].child = "running"
    /\ Len(calls[c].stdout) < MaxChunks
    /\ calls' = [d \in DOMAIN calls |->
                   IF calls[d].child = "running" /\ Len(calls[d].stdout) < MaxChunks
                   THEN [calls[d] EXCEPT !.stdout = Append(@, chunk)]
                   ELSE calls[d]]
    /\ UNCHANGED <<fsys, nextTemp, fn, input, output>>

StdoutData(c, chunk) ==
    /\ calls[c].child = "running"
    /\ Len(calls[c].stdout) < MaxChunks
    /\ SetCall(c, [calls[c] EXCEPT !.stdout = Append(@, chunk)])
    /\ UNCHANGED <<fsys, nextTemp, fn, input, output>>

\* child.stderr 'data': stderr.push(chunk.toString())
StderrData(c, chunk) ==
    /\ calls[c].child = "running"
    /\ Len(calls[c].stderr) < MaxChunks
    /\ SetCall(c, [calls[c] EXCEPT !.stderr = Append(@, chunk)])
    /\ UNCHANGED <<fsys, nextTemp, fn, input, output>>

\* child 'error': reject(error). The promise is pending (nothing settles it
\* before 'close'), so the awaiting call throws the error.
ChildError(c, error) ==
    /\ calls[c].child = "running"
    /\ calls[c].promise = "pending"
    /\ SetCall(c, Throw([calls[c] EXCEPT !.child = "errored",
                                         !.launchError = error,
                                         !.promise = "rejected"],
                        error, "error"))
    /\ UNCHANGED <<fsys, nextTemp, fn, input, output>>

\* Faulty variant of ChildClose: the 'close' handler's resolve also wins over an
\* earlier reject.
ChildCloseOverriding(c, rawCode) ==
    LET code == IF IsSome(rawCode) THEN ValueOf(rawCode) ELSE -1
        closed == [calls[c] EXCEPT !.child = "closed", !.exitCode = rawCode]
    IN  /\ calls[c].child \in {"running", "errored"}
        /\ SetCall(c, Finish([closed EXCEPT !.promise = "resolved", !.code = code],
                             code))
        /\ UNCHANGED <<fsys, nextTemp, fn, input, output>>

\* child 'close': resolve({code: code ?? -1, stdout, stderr}). Resolving a
\* promise that 'error' has rejected changes nothing; otherwise the awaiting
\* call resumes with the result.
ChildClose(c, rawCode) ==
    LET code == IF IsSome(rawCode) THEN ValueOf(rawCode) ELSE -1
        closed == [calls[c] EXCEPT !.child = "closed", !.exitCode = rawCode]
    IN  /\ calls[c].child \in {"running", "errored"}
        /\ IF calls[c].promise = "pending"
           THEN SetCall(c, Finish([closed EXCEPT !.promise = "resolved",
                                                !.code = code], code))
           ELSE SetCall(c, closed)
        /\ UNCHANGED <<fsys, nextTemp, fn, input, output>>

\* The caller is done with the result; the next call starts from scratch
\* (the core keeps nothing between calls).
Discard(c) ==
    /\ calls[c].pc = "done"
    /\ calls[c].child \in {"none", "closed"}
    /\ SetCall(c, IdleCall)
    /\ UNCHANGED <<fsys, nextTemp, fn, input, output>>

(***************************************************************************)
(* The engine's specification.                                             *)
(***************************************************************************)
\* The harness result: pending, or the value the function returned.
Pending == [done |-> FALSE]
Done(v) == [done |-> TRUE, value |-> v]

Init ==
    /\ fsys = InitialFiles
    /\ nextTemp = 0
    /\ calls = [c \in Calls |-> IdleCall]
    /\ fn = "none"
    /\ input = <<>>
    /\ output = Pending

Next ==
    \E c \in Calls :
        \/ \E p \in ArchivePaths : ListCall(c, p)
        \/ \E p \in ArchivePaths, f \in FileLists, t \in Formats, l \in Levels :
               AddCall(c, [NoPayload EXCEPT !.archivePath = p, !.files = f,
                                            !.format = t, !.compressionLevel = l])
        \/ \E p \in ArchivePaths, d \in Destinations, e \in ExtractEntries :
               ExtractCall(c, [NoPayload EXCEPT !.archivePath = p,
                                                !.destination = d, !.entries = e])
        \/ ExtractMkdir(c)
        \/ \E p \in ArchivePaths, e \in DeleteEntries :
               DeleteCall(c, [NoPayload EXCEPT !.archivePath = p, !.entries = Some(e)])
        \/ \E p \in ArchivePaths : TestCall(c, p)
        \/ \E p \in ArchivePaths, e \in EntryPaths :
               PreviewCall(c, [NoPayload EXCEPT !.archivePath = p, !.entryPath = e])
        \/ PreviewMkdtemp(c)
        \/ \E chunk \in StdoutChunks : StdoutData(c, chunk)
        \/ \E chunk \in StderrChunks : StderrData(c, chunk)
        \/ \E error \in LaunchErrors : ChildError(c, error)
        \/ \E code \in ExitCodes : ChildClose(c, code)
        \/ Discard(c)

Spec == Init /\ [][Next]_vars

(***************************************************************************)
(* buildCommandResult on its own: streams long enough to pass LogLimit.    *)
(***************************************************************************)
\* n chunks that each hold one distinct line
Bulk(tag, n) == [i \in 1..n |-> tag \o ToString(i) \o "\n"]

\* Chunks as a stream delivers them: blank, several lines in one, padded.
SmallChunks == {" \n", "a\nb", " c "}

PreSeqs == UNION {[1..k -> SmallChunks] : k \in 0..MaxPre}

LogInputs ==
    {[success |-> TRUE, message |-> "m",
      stdout |-> pre \o Bulk("o", n), stderr |-> Bulk("e", m) \o post] :
        pre \in PreSeqs, post \in PreSeqs,
        n \in {0, LogLimit - 1, LogLimit + 1}, m \in {0, 1, LogLimit + 1}}

InitLogs ==
    /\ fsys = InitialFiles
    /\ nextTemp = 0
    /\ calls = [c \in Calls |-> IdleCall]
    /\ fn = "buildCommandResult"
    /\ input \in LogInputs
    /\ output = Pending

ApplyBuildCommandResult ==
    /\ fn = "buildCommandResult"
    /\ ~output.done
    /\ output' = Done(buildCommandResult(input.success, input.message,
                                         input.stdout, input.stderr))
    /\ UNCHANGED <<fsys, nextTemp, calls, fn, input>>

NextLogs == ApplyBuildCommandResult

SpecLogs == InitLogs /\ [][NextLogs]_vars

(***************************************************************************)
(* parseListOutput on its own: listings assembled from blocks.             *)
(***************************************************************************)
\* Blocks of a verbose listing with the Path value each one carries ("" when
\* it has no usable Path); blank marks a block that is empty once trimmed.
ListingBlocks ==
    {[text |-> "Path = /w/a.7z\nType = 7z", path |-> "/w/a.7z", blank |-> FALSE],
     [text |-> "Path = d/f.txt\nSize = 12\nPacked Size = 7\nFolder = -",
      path |-> "d/f.txt", blank |-> FALSE],
     [text |-> "Path = d\r\nFolder = D+", path |-> "d", blank |-> FALSE],
     [text |-> "Modified = x\nPath = a = b", path |-> "a = b", blank |-> FALSE],
     [text |-> "Size = 3\nnoise", path |-> "", blank |-> FALSE],
     [text |-> "Path =  \nSize = 1", path |-> "", blank |-> FALSE],
     [text |-> " ", path |-> "", blank |-> TRUE]}

BlockSeparators == {"\n\n", "\r\n\r\n"}

\* The listing text of the blocks: the tool ends its output with a line end.
Render(blocks, sep) ==
    JoinWith([i \in 1..Len(blocks) |-> blocks[i].text], sep) \o "\n"

ParseInputs ==
    {[blocks |-> b, sep |-> sep, raw |-> Render(b, sep), archivePath |-> "/w/a.7z"] :
        b \in UNION {[1..k -> ListingBlocks] : k \in 0..MaxBlocks},
        sep \in BlockSeparators}

InitParse ==
    /\ fsys = InitialFiles
    /\ nextTemp = 0
    /\ calls = [c \in Calls |-> IdleCall]
    /\ fn = "parseListOutput"
    /\ input \in ParseInputs
    /\ output = Pending

ApplyParseListOutput ==
    /\ fn = "parseListOutput"
    /\ ~output.done
    /\ output' = Done(parseListOutput(input.raw, input.archivePath))
    /\ UNCHANGED <<fsys, nextTemp, calls, fn, input>>

NextParse == ApplyParseListOutput

SpecParse == InitParse /\ [][NextParse]_vars

(***************************************************************************)
(* The result of listArchiveEntries on its own: the listing text arrives   *)
(* in chunks and is parsed and summed once the subprocess exited with 0.   *)
(***************************************************************************)
\* Blocks of a listing with the sizes the tool prints in them; entry marks the
\* blocks that describe a member of the archive.
SizedBlocks ==
    {[text |-> "Path = /w/a.7z\nSize = 9\nPacked Size = 9",
      size |-> 9, compressedSize |-> 9, entry |-> FALSE],
     [text |-> "Path = f\nSize = 12\nPacked Size = 7\nFolder = -",
      size |-> 12, compressedSize |-> 7, entry |-> TRUE],
     [text |-> "Path = d\nSize = 4\nPacked Size = 2\nFolder = D+",
      size |-> 4, compressedSize |-> 2, entry |-> TRUE],
     [text |-> "Path = g\nSize = 5",
      size |-> 5, compressedSize |-> 0, entry |-> TRUE],
     [text |-> "Size = 3\nPacked Size = 1",
      size |-> 3, compressedSize |-> 1, entry |-> FALSE]}

\* The ways the text reaches the stdout listener: whole, or cut in two.
Chunkings(text) ==
    {<<text>>,
     <<SubSeq(text, 1, Len(text) \div 2),
       SubSeq(text, Len(text) \div 2 + 1, Len(text))>>}

ListInputs ==
    UNION {{[blocks |-> b, stdout |-> chunks, archivePath |-> "/w/a.7z"] :
               chunks \in Chunkings(Render(b, "\n\n"))} :
           b \in UNION {[1..k -> SizedBlocks] : k \in 0..MaxList}}

InitList ==
    /\ fsys = InitialFiles
    /\ nextTemp = 0
    /\ calls = [c \in Calls |-> IdleCall]
    /\ fn = "listArchiveEntries"
    /\ input \in ListInputs
    /\ output = Pending

ApplyListResult ==
    /\ fn = "listArchiveEntries"
    /\ ~output.done
    /\ output' = Done(ListResult(input.archivePath, input.stdout))
    /\ UNCHANGED <<fsys, nextTemp, calls, fn, input>>

NextList == ApplyListResult

SpecList == InitList /\ [][NextList]_vars

(***************************************************************************)
(* parseListOutput on one block assembled from the values of its keys.     *)
(***************************************************************************)
\* Values of the Path key; none has white space at either end.
EntryPathValues == {"f.txt", "d/e.txt", "d\\s\\e", "d/sub/", "a = b", "/"}

\* Values of the other keys, None when the block has no line for the key.
SizeValues ==
    {None, Some("12"), Some("0"), Some(""), Some("abc"), Some("-5"), Some("0x1f")}
PackedSizeValues == {None, Some("7"), Some("007"), Some("-1")}
ModifiedValues == {None, Some("2024-01-02 03:04:05"), Some("a = b ")}
FolderValues == {None, Some("-"), Some("+"), Some("D+"), Some("....A")}

LineEnds == {"\n", "\r\n"}

\* The line of a key, when the block has one.
KeyLine(key, value) ==
    IF IsSome(value) THEN <<key \o " = " \o ValueOf(value)>> ELSE <<>>

\* The listing text of one block; every line is ended by eol.
RenderEntry(pathValue, sizeValue, packed, modified, folder, eol) ==
    JoinWith(<<"Path = " \o pathValue>> \o KeyLine("Size", sizeValue)
                 \o KeyLine("Packed Size", packed)
                 \o KeyLine("Modified", modified)
                 \o KeyLine("Folder", folder), eol) \o eol

EntryInputs ==
    {[path |-> p, size |-> s, packed |-> k, modified |-> m, folder |-> f,
      raw |-> RenderEntry(p, s, k, m, f, eol), archivePath |-> "/w/a.7z"] :
        p \in EntryPathValues, s \in SizeValues, k \in PackedSizeValues,
        m \in ModifiedValues, f \in FolderValues, eol \in LineEnds}

InitEntry ==
    /\ fsys = InitialFiles
    /\ nextTemp = 0
    /\ calls = [c \in Calls |-> IdleCall]
    /\ fn = "parseListOutput"
    /\ input \in EntryInputs
    /\ output = Pending

SpecEntry == InitEntry /\ [][NextParse]_vars

(***************************************************************************)
(* The argument vectors of add, extract, delete and preview on their own:  *)
(* what each call hands to run7zip for a payload that passed its checks.   *)
(***************************************************************************)
\* Archive paths of add with the format their last extension stands for.
ArchiveFormats ==
    {[path |-> "a.zip", format |-> "zip"],
     [path |-> "A.ZIP", format |-> "zip"],
     [path |-> "a.7z", format |-> "7z"],
     [path |-> "b.tar", format |-> "tar"],
     [path |-> "c.tar.gz", format |-> "tar"],
     [path |-> "d.TGZ", format |-> "tar"],
     [path |-> "/m/e.zip.rar", format |-> "7z"],
     [path |-> "x.zip/noext", format |-> "7z"],
     [path |-> ".zip", format |-> "7z"]}

CompressionFormats == {"7z", "zip", "tar"}

\* compressionLevel: absent, the ends of the renderer's range, and 0
ArgLevels == {None, Some(1), Some(9), Some(0)}

ArgFileLists == {<<"f.txt">>, <<"f.txt", "/g">>}

\* Entry paths as a caller may write them.
EntryStrings == {"x", "/x", "\\x", "//\\d/e", "/", "d\\e/"}

EntryLists == UNION {[1..k -> EntryStrings] : k \in 1..MaxEntries}

AddInputs ==
    {[op |-> "add",
      payload |-> [NoPayload EXCEPT !.archivePath = a.path, !.files = fl,
                                    !.format = f, !.compressionLevel = l],
      expected |-> a.format] :
        a \in ArchiveFormats, fl \in ArgFileLists,
        f \in {None} \cup {Some(x) : x \in CompressionFormats}, l \in ArgLevels}

ExtractInputs ==
    {[op |-> "extract",
      payload |-> [NoPayload EXCEPT !.archivePath = "a.7z", !.destination = "out",
                                    !.entries = e],
      expected |-> ""] :
        e \in {None, Some(<<>>)} \cup {Some(l) : l \in EntryLists}}

DeleteInputs ==
    {[op |-> "delete",
      payload |-> [NoPayload EXCEPT !.archivePath = "a.7z", !.entries = Some(l)],
      expected |-> ""] : l \in EntryLists}

PreviewInputs ==
    {[op |-> "preview",
      payload |-> [NoPayload EXCEPT !.archivePath = "a.7z", !.entryPath = e],
      expected |-> ""] : e \in EntryStrings}

InitArgs ==
    /\ fsys = InitialFiles
    /\ nextTemp = 0
    /\ calls = [c \in Calls |-> IdleCall]
    /\ fn = "args"
    /\ input \in AddInputs \cup ExtractInputs \cup DeleteInputs \cup PreviewInputs
    /\ output = Pending

ApplyAddArgs ==
    /\ fn = "args" /\ input.op = "add" /\ ~output.done
    /\ output' = Done(AddArgs(input.payload, PathResolve(input.payload.archivePath),
                              ResolveAll(input.payload.files)))
    /\ UNCHANGED <<fsys, nextTemp, calls, fn, input>>

ApplyExtractArgs ==
    /\ fn = "args" /\ input.op = "extract" /\ ~output.done
    /\ output' = Done(ExtractArgs(input.payload,
                                  PathResolve(input.payload.archivePath),
                                  PathResolve(input.payload.destination)))
    /\ UNCHANGED <<fsys, nextTemp, calls, fn, input>>

ApplyDeleteArgs ==
    /\ fn = "args" /\ input.op = "delete" /\ ~output.done
    /\ output' = Done(DeleteArgs(input.payload,
                                 PathResolve(input.payload.archivePath)))
    /\ UNCHANGED <<fsys, nextTemp, calls, fn, input>>

ApplyPreviewArgs ==
    /\ fn = "args" /\ input.op = "preview" /\ ~output.done
    /\ output' = Done(PreviewArgs(PathResolve(input.payload.archivePath),
                                  normalizeEntryPath(input.payload.entryPath),
                                  TempDirName(1)))
    /\ UNCHANGED <<fsys, nextTemp, calls, fn, input>>

NextArgs ==
    \/ ApplyAddArgs
    \/ ApplyExtractArgs
    \/ ApplyDeleteArgs
    \/ ApplyPreviewArgs

SpecArgs == InitArgs /\ [][NextArgs]_vars

(***************************************************************************)
(* Two Engine API calls in flight at once: the events of their two         *)
(* subprocesses interleave in every order. Each subprocess writes chunks   *)
(* that name its call, so that a chunk is known by the call it belongs to. *)
(***************************************************************************)
ConcurrentCalls == {"c1", "c2"}

StdoutChunksOf(c) == {"Path = " \o c \o "\n", "Size = 1\n\n"}
StderrChunksOf(c) == {" " \o c \o " failed "}
EntriesOf(c) == <<"/" \o c>>
ConcurrentExitCodes == {Some(0), Some(2)}

InitConcurrent ==
    /\ fsys = InitialFiles
    /\ nextTemp = 0
    /\ calls = [c \in ConcurrentCalls |-> IdleCall]
    /\ fn = "none"
    /\ input = <<>>
    /\ output = Pending

NextConcurrent ==
    \E c \in ConcurrentCalls :
        \/ ListCall(c, "a.7z")
        \/ DeleteCall(c, [NoPayload EXCEPT !.archivePath = "a.7z",
                                           !.entries = Some(EntriesOf(c))])
        \/ TestCall(c, "a.7z")
        \/ \E chunk \in StdoutChunksOf(c) : StdoutData(c, chunk)
        \/ \E chunk \in StderrChunksOf(c) : StderrData(c, chunk)
        \/ ChildError(c, "spawn 7za ENOENT")
        \/ \E code \in ConcurrentExitCodes : ChildClose(c, code)

SpecConcurrent == InitConcurrent /\ [][NextConcurrent]_vars

(***************************************************************************)
(* Claims about the Engine API (specification Spec).                       *)
(***************************************************************************)
\* C1: listArchiveEntries, extractArchiveEntries and testArchiveIntegrity,
\* called with an archive path at which nothing exists, fail in that very step
\* with 'Archive not found at <resolved path>', launch no subprocess and leave
\* the disk as it was (extract creates no destination directory); a call that
\* failed this check does nothing afterwards.
C1_MissingArchiveFailsBeforeSpawn ==
    [][\A c \in Calls :
         LET call == calls'[c]
             resolved == PathResolve(call.payload.archivePath)
         IN  /\ (/\ calls[c].pc = "idle"
                 /\ call.op \in {"list", "extract", "test"}
                 /\ ~existsSync(fsys, resolved))
                => /\ call.pc = "done"
                   /\ call.outcome = "threw"
                   /\ call.value.error = "Archive not found at " \o resolved
                   /\ call.spawned = 0
                   /\ call.child = "none"
                   /\ fsys' = fsys
             /\ calls[c].settledBy = "precheck"
                => /\ call \in {calls[c], IdleCall}
                   /\ fsys' = fsys]_vars

\* C1 witness: an extract of a missing archive has failed and its destination
\* does not exist.
C1_Witness ==
    \E c \in Calls :
        /\ calls[c].op = "extract"
        /\ calls[c].settledBy = "precheck"
        /\ ~existsSync(fsys, PathResolve(calls[c].payload.archivePath))
        /\ ~existsSync(fsys, PathResolve(calls[c].payload.destination))

\* C2: addFilesToArchive with an empty files list and deleteArchiveEntries
\* with an empty entries list fail with their invalid-input error, and no
\* subprocess was launched.
C2_EmptyInputFailsBeforeSpawn ==
    \A c \in Calls :
        LET call == calls[c]
        IN  /\ (call.op = "add" /\ Len(call.payload.files) = 0)
               => /\ call.pc = "done"
                  /\ call.outcome = "threw"
                  /\ call.value.error = "No files selected to add"
                  /\ call.spawned = 0
                  /\ call.child = "none"
            /\ (call.op = "delete" /\ Len(ValueOf(call.payload.entries)) = 0)
               => /\ call.pc = "done"
                  /\ call.outcome = "threw"
                  /\ call.value.error = "No entries selected for deletion"
                  /\ call.spawned = 0
                  /\ call.child = "none"

\* C2 witness: an add with no files has failed.
C2_Witness ==
    \E c \in Calls :
        /\ calls[c].op = "add"
        /\ calls[c].payload.files = <<>>
        /\ calls[c].outcome = "threw"

\* C3 as stated: every completed Engine API call has issued exactly one
\* subprocess invocation.
C3_ExactlyOneSubprocess ==
    \A c \in Calls : calls[c].pc = "done" => calls[c].spawned = 1

\* C3 amended: a call launches at most one subprocess: none when it fails its
\* own checks or its preparation (mkdir), exactly one otherwise; it returns a
\* result, or fails on the exit code, only once that subprocess has closed;
\* it never launches a second subprocess.
C3_AtMostOneSubprocess ==
    \A c \in Calls :
        LET call == calls[c]
        IN  /\ call.spawned <= 1
            /\ call.pc = "running" => call.spawned = 1 /\ call.outcome = "none"
            /\ call.settledBy \in {"precheck", "prepare"} => call.spawned = 0
            /\ call.settledBy \in {"error", "close"} => call.spawned = 1
            /\ call.settledBy = "close" => call.child = "closed"
            /\ call.outcome = "returned"
               => call.settledBy = "close" /\ call.promise = "resolved"

\* C3 witness: a call has returned a result after its one subprocess closed
\* with output on both streams.
C3_Witness ==
    \E c \in Calls :
        /\ calls[c].outcome = "returned"
        /\ calls[c].spawned = 1
        /\ calls[c].stdout # <<>>
        /\ calls[c].stderr # <<>>

\* C4: once the child has emitted 'error', the call has failed with exactly
\* that error and stays so; a 'close' that follows does not turn it into a
\* result built from an exit code.
C4_LaunchErrorIsSurfaced ==
    \A c \in Calls :
        calls[c].launchError # ""
        => /\ calls[c].outcome = "threw"
           /\ calls[c].value = [error |-> calls[c].launchError]
           /\ calls[c].promise = "rejected"
           /\ calls[c].settledBy = "error"

\* C4 witness: 'close' with exit code 0 has followed the 'error' event.
C4_Witness ==
    \E c \in Calls :
        /\ calls[c].launchError # ""
        /\ calls[c].child = "closed"
        /\ calls[c].exitCode = Some(0)

\* C5: for list, add, extract, delete and preview, a closed subprocess whose
\* exit code is not 0 (a missing code counts as -1) makes the call fail with
\* the trimmed concatenation of the stderr chunks, or with the operation's
\* fallback text when that is empty; a result is returned only on code 0.
C5_NonZeroExitThrowsStderr ==
    \A c \in Calls :
        LET call == calls[c]
            text == Trim(Join(call.stderr))
            fallback ==
                CASE call.op = "list" -> "Unable to list archive contents"
                  [] call.op = "add" -> "Unable to add files to archive"
                  [] call.op = "extract" -> "Unable to extract archive"
                  [] call.op = "delete" -> "Unable to delete selected entries"
                  [] call.op = "preview" -> "Unable to extract preview"
        IN  (call.op \in {"list", "add", "extract", "delete", "preview"}
             /\ call.settledBy = "close")
            => /\ call.exitCode = None => call.code = -1
               /\ IsSome(call.exitCode) => call.code = ValueOf(call.exitCode)
               /\ call.exitCode # Some(0)
                  => /\ call.outcome = "threw"
                     /\ call.value.error = (IF text # "" THEN text ELSE fallback)
               /\ call.exitCode = Some(0) => call.outcome = "returned"

\* C5 witness: a child ended without an exit code and the stderr chunks had
\* white space around their text.
C5_Witness ==
    \E c \in Calls :
        /\ calls[c].op = "extract"
        /\ calls[c].settledBy = "close"
        /\ calls[c].exitCode = None
        /\ calls[c].outcome = "threw"
        /\ calls[c].value.error # Join(calls[c].stderr)
        /\ calls[c].value.error # "Unable to extract archive"

\* C6: testArchiveIntegrity of an existing archive, once the subprocess has
\* closed, returns success = (exit code = 0) with the message fixed by the
\* exit code alone, whatever stderr holds; it never fails on the exit code.
C6_TestResultFollowsExitCode ==
    \A c \in Calls :
        LET call == calls[c]
        IN  /\ (call.op = "test" /\ call.settledBy = "close")
               => /\ call.outcome = "returned"
                  /\ call.value.success = (call.exitCode = Some(0))
                  /\ call.value.message =
                        (IF call.exitCode = Some(0) THEN "Archive passed integrity test"
                         ELSE "Archive failed integrity test")
            /\ (call.op = "test" /\ call.outcome = "threw")
               => call.settledBy \in {"precheck", "error"}

\* C6 witness: a test whose subprocess exited with 2 and wrote text to stderr
\* has returned, and the text is in the logs.
C6_Witness ==
    \E c \in Calls :
        /\ calls[c].op = "test"
        /\ calls[c].exitCode = Some(2)
        /\ calls[c].outcome = "returned"
        /\ calls[c].value.logs = <<"E">>

(***************************************************************************)
(* Claims about the result normalizer (specification SpecLogs).            *)
(***************************************************************************)
\* C7: the logs hold at most LogLimit (200) entries; they are the non-empty
\* trimmed stdout chunks followed by the non-empty trimmed stderr chunks, each
\* in arrival order, and of that combined sequence exactly the last LogLimit
\* when it is longer.
C7_LogsAreLastEntries ==
    output.done =>
        LET fromStdout == SelectSeq(TrimAll(input.stdout), Truthy)
            fromStderr == SelectSeq(TrimAll(input.stderr), Truthy)
            all == fromStdout \o fromStderr
            logs == output.value.logs
            dropped == Len(all) - Len(logs)
        IN  /\ Len(logs) <= LogLimit
            /\ Len(logs) = IF Len(all) > LogLimit THEN LogLimit ELSE Len(all)
            /\ \A i \in 1..Len(logs) : logs[i] = all[dropped + i]

\* C7 witness: both streams contributed and more than LogLimit entries
\* existed, so that the oldest stdout entries were discarded.
C7_Witness ==
    /\ output.done
    /\ Len(input.stdout) > LogLimit
    /\ Len(input.stderr) > 1
    /\ Len(input.stderr) < LogLimit
    /\ Len(output.value.logs) = LogLimit

\* C8: every entry of the logs is one non-empty, trimmed line: it contains no
\* line break.
C8_EveryLogEntryIsOneLine ==
    output.done =>
        \A i \in 1..Len(output.value.logs) :
            LET entry == output.value.logs[i]
            IN  /\ entry # ""
                /\ Trim(entry) = entry
                /\ ~Includes(entry, "\n")

(***************************************************************************)
(* Claims about the listing parser (specification SpecParse).              *)
(***************************************************************************)
\* C9 as stated: a listing of B non-empty blocks of which exactly one has the
\* archive path as its Path yields exactly B - 1 entries.
C9_BlocksMinusOne ==
    output.done =>
        LET blocks == SelectSeq(input.blocks, LAMBDA b : ~b.blank)
            own == SelectSeq(blocks, LAMBDA b : b.path = input.archivePath)
        IN  Len(own) = 1 => Len(output.value) = Len(blocks) - 1

\* C9 amended: a listing of B non-empty blocks that all have a non-empty Path
\* value, exactly one of them equal to the archive path, yields exactly B - 1
\* entries.
C9_BlocksWithPathMinusOne ==
    output.done =>
        LET blocks == SelectSeq(input.blocks, LAMBDA b : ~b.blank)
            own == SelectSeq(blocks, LAMBDA b : b.path = input.archivePath)
        IN  (Len(own) = 1 /\ \A i \in 1..Len(blocks) : blocks[i].path # "")
            => Len(output.value) = Len(blocks) - 1

\* C9 witness: the archive's own block among three blocks with a Path, and a
\* blank block that does not count.
C9_Witness ==
    /\ output.done
    /\ \E i \in 1..Len(input.blocks) : input.blocks[i].blank
    /\ Len(SelectSeq(input.blocks, LAMBDA b : b.path = input.archivePath)) = 1
    /\ Len(SelectSeq(input.blocks, LAMBDA b : b.path # "")) = MaxBlocks - 1
    /\ Len(output.value) = MaxBlocks - 2

\* C10: the entries are, in block order, those of the blocks with a non-empty
\* Path value other than the archive path; the other blocks (malformed, no
\* Path, empty Path, the archive's own) yield nothing and leave the entries
\* of the rest as they are without them.
C10_EntryIffUsablePath ==
    output.done =>
        LET emits(b) == b.path # "" /\ b.path # input.archivePath
            kept == SelectSeq(input.blocks, emits)
        IN  /\ Len(output.value) = Len(kept)
            /\ \A i \in 1..Len(kept) :
                   /\ output.value[i].path = kept[i].path
                   /\ output.value[i].id = kept[i].path
            /\ output.value = parseListOutput(Render(kept, input.sep),
                                              input.archivePath)

\* C10 witness: a block without Path stands between two blocks that yield
\* entries.
C10_Witness ==
    /\ output.done
    /\ Len(input.blocks) = 3
    /\ input.blocks[2].path = ""
    /\ ~input.blocks[2].blank
    /\ Len(output.value) = 2
    /\ output.value[1].path # output.value[2].path

(***************************************************************************)
(* Claims about the listing result (specification SpecList).               *)
(***************************************************************************)
\* The blocks of the input that describe members of the archive.
MemberBlocks == SelectSeq(input.blocks, LAMBDA b : b.entry)

\* C11: a successful listArchiveEntries returns stats whose entries field is
\* the number of returned entries and whose totalSize and totalCompressedSize
\* are the sums of size and compressedSize over all returned entries,
\* directories included; these are the totals of the sizes the listing
\* printed for the archive's members.
C11_StatsSumAllEntries ==
    output.done =>
        LET result == output.value
        IN  /\ result.stats.entries = Len(result.entries)
            /\ result.stats.entries = Len(MemberBlocks)
            /\ result.stats.totalSize = SumOf(result.entries, "size")
            /\ result.stats.totalSize = SumOf(MemberBlocks, "size")
            /\ result.stats.totalCompressedSize
                   = SumOf(result.entries, "compressedSize")
            /\ result.stats.totalCompressedSize
                   = SumOf(MemberBlocks, "compressedSize")

C11_Witness ==
    /\ output.done
    /\ Len(input.stdout) = 2
    /\ Len(output.value.entries) = 3
    /\ \E i \in 1..3 : /\ output.value.entries[i].isDirectory
                       /\ output.value.entries[i].size > 0
    /\ \E i \in 1..3 : ~output.value.entries[i].isDirectory
    /\ output.value.stats.totalSize > output.value.stats.totalCompressedSize

(***************************************************************************)
(* Claims about the fields of a parsed entry (specification SpecEntry).    *)
(***************************************************************************)
\* The value of a plain base-10 integer (digits only), 0 for anything else
\* and for an absent key.
PlainDecimalOrZero(value) ==
    IF IsSome(value) /\ ValueOf(value) # "" /\ AllIn(Digits, ValueOf(value))
    THEN ValueIn(Digits, ValueOf(value), 0)
    ELSE 0

\* C12: every parsed entry's size and compressedSize are non-negative
\* integers: the plain base-10 integer value of the block's Size and Packed
\* Size keys, and 0 when the key is absent or its value is not a plain
\* base-10 integer.
C12_SizesArePlainDecimals ==
    output.done =>
        \A i \in 1..Len(output.value) :
            /\ output.value[i].size \in Nat
            /\ output.value[i].compressedSize \in Nat
            /\ output.value[i].size = PlainDecimalOrZero(input.size)
            /\ output.value[i].compressedSize = PlainDecimalOrZero(input.packed)

Separators == {"/", "\\"}

\* name is the last run of non-separator characters of path.
IsFinalSegment(name, path) ==
    \E i \in 1..Len(path) : \E j \in i..Len(path) :
        /\ name = SubSeq(path, i, j)
        /\ \A k \in i..j : CharAt(path, k) \notin Separators
        /\ i = 1 \/ CharAt(path, i - 1) \in Separators
        /\ \A k \in (j + 1)..Len(path) : CharAt(path, k) \in Separators

\* C13: the name of every parsed entry is the final non-empty segment of its
\* path split on '/' and '\'; a path without a separator is its own name (and
\* so is a path that has no non-empty segment at all).
C13_NameIsFinalSegment ==
    output.done =>
        \A i \in 1..Len(output.value) :
            LET e == output.value[i]
                hasSegment == \E k \in 1..Len(e.path) :
                                  CharAt(e.path, k) \notin Separators
                hasSeparator == \E k \in 1..Len(e.path) :
                                    CharAt(e.path, k) \in Separators
            IN  /\ hasSegment => IsFinalSegment(e.name, e.path)
                /\ ~hasSeparator => e.name = e.path
                /\ ~hasSegment => e.name = e.path

C13_Witness ==
    /\ output.done
    /\ Len(output.value) = 1
    /\ input.path = "d\\s\\e"
    /\ output.value[1].name = "e"

\* The Folder values that contain a '+'.
FolderValuesWithPlus == {"+", "D+"}

\* C14: id and path of every emitted entry are the block's Path value,
\* modified is the Modified value as printed, without surrounding white space
\* ('' when the key is absent), and isDirectory is true exactly when the
\* Folder value contains a '+' anywhere (Folder = ....A gives false).
C14_FieldsFollowBlock ==
    output.done =>
        /\ Len(output.value) = 1
        /\ LET e == output.value[1]
           IN  /\ e.id = input.path
               /\ e.path = input.path
               /\ e.modified = IF IsSome(input.modified)
                                THEN Trim(ValueOf(input.modified)) ELSE ""
               /\ e.modified # "" => IsSome(input.modified)
               /\ e.isDirectory <=> /\ IsSome(input.folder)
                                     /\ ValueOf(input.folder) \in FolderValuesWithPlus

C14_Witness ==
    /\ output.done
    /\ input.folder = Some("D+")
    /\ input.modified = Some("2024-01-02 03:04:05")
    /\ output.value[1].isDirectory
    /\ output.value[1].modified = "2024-01-02 03:04:05"
    /\ output.value[1].id = input.path

(***************************************************************************)
(* Claims about the entries of one listing (specification SpecParse).      *)
(***************************************************************************)
\* C15: within one listing result the ids and the paths of the returned
\* entries are pairwise distinct and slash-normalized (no backslash), for
\* every listing text the tool can emit.
C15_IdsAreDistinctAndNormalized ==
    output.done =>
        /\ \A i, j \in 1..Len(output.value) :
               i # j => /\ output.value[i].id # output.value[j].id
                        /\ output.value[i].path # output.value[j].path
        /\ \A i \in 1..Len(output.value) :
               /\ ~Includes(output.value[i].id, "\\")
               /\ ~Includes(output.value[i].path, "\\")

(***************************************************************************)
(* Claims about the argument vectors (specification SpecArgs).             *)
(***************************************************************************)
\* The entry paths a payload asks for, and the arguments that stand for them
\* in the vector built for it.
RequestedEntries ==
    CASE input.op = "extract" ->
           IF IsSome(input.payload.entries) THEN ValueOf(input.payload.entries)
           ELSE <<>>
      [] input.op = "delete" -> ValueOf(input.payload.entries)
      [] input.op = "preview" -> <<input.payload.entryPath>>
      [] OTHER -> <<>>

EntryArguments ==
    CASE input.op = "extract" -> SubSeq(output.value, 5, Len(output.value))
      [] input.op = "delete" -> SubSeq(output.value, 3, Len(output.value))
      [] input.op = "preview" -> <<output.value[3]>>
      [] OTHER -> <<>>

\* arg is requested without its leading separators, all of them.
IsStripped(arg, requested) ==
    /\ CharAt(arg, 1) \notin Separators
    /\ \E k \in 0..Len(requested) :
           /\ arg = SubSeq(requested, k + 1, Len(requested))
           /\ \A i \in 1..k : CharAt(requested, i) \in Separators

\* C16: every entry path that extract, delete or preview places in the
\* argument vector is the requested path with all its leading '/' and '\'
\* removed, so no entry argument starts with a separator, and normalizing it
\* again changes nothing.
C16_EntryArgumentsAreNormalized ==
    (output.done /\ input.op \in {"extract", "delete", "preview"}) =>
        /\ Len(EntryArguments) = Len(RequestedEntries)
        /\ \A i \in 1..Len(EntryArguments) :
               /\ IsStripped(EntryArguments[i], RequestedEntries[i])
               /\ normalizeEntryPath(EntryArguments[i]) = EntryArguments[i]

C16_Witness ==
    /\ output.done
    /\ input.op = "delete"
    /\ RequestedEntries = <<"//\\d/e", "\\x">>
    /\ EntryArguments = <<"d/e", "x">>

\* s.startsWith(prefix)
StartsWith(s, prefix) ==
    Len(s) >= Len(prefix) /\ SubSeq(s, 1, Len(prefix)) = prefix

\* The -t<format> argument of an add vector.
FormatArguments ==
    SelectSeq(output.value, LAMBDA a : StartsWith(a, "-t"))

\* C17: the format add uses is the payload's format when one is given;
\* otherwise it follows the archive path's last extension, compared without
\* regard to case (zip -> zip, 7z -> 7z, tar, gz and tgz -> tar) and is 7z for
\* any other or no extension; it is always one of 7z, zip, tar.
C17_AddFormat ==
    (output.done /\ input.op = "add") =>
        /\ Len(FormatArguments) = 1
        /\ FormatArguments[1] =
              "-t" \o (IF IsSome(input.payload.format)
                       THEN ValueOf(input.payload.format)
                       ELSE input.expected)
        /\ FormatArguments[1] \in {"-t" \o f : f \in CompressionFormats}

C17_Witness ==
    /\ output.done
    /\ input.op = "add"
    /\ input.payload.format = None
    /\ input.payload.archivePath = "d.TGZ"
    /\ FormatArguments = <<"-ttar">>

\* The -mx=<level> arguments of an add vector.
LevelArguments ==
    SelectSeq(output.value, LAMBDA a : StartsWith(a, "-mx="))

\* The decimal text of the levels of the model.
LevelText == [n \in {1, 9} |-> IF n = 1 THEN "1" ELSE "9"]

\* C18: for a compressionLevel that is absent or a positive integer, add's
\* vector contains -mx=<level> if and only if the level is given, with the
\* given level; without a level the vector is exactly
\* [a, -t<format>, -y, archive, files...].
C18_LevelFlagIffSpecified ==
    (/\ output.done
     /\ input.op = "add"
     /\ (IsSome(input.payload.compressionLevel)
           => ValueOf(input.payload.compressionLevel) > 0)) =>
        LET level == input.payload.compressionLevel
            plain == <<"a", FormatArguments[1], "-y",
                       PathResolve(input.payload.archivePath)>>
                         \o ResolveAll(input.payload.files)
        IN  /\ (LevelArguments # <<>>) <=> IsSome(level)
            /\ IsSome(level) =>
                   /\ LevelArguments = <<"-mx=" \o LevelText[ValueOf(level)]>>
                   /\ SelectSeq(output.value, LAMBDA a : ~StartsWith(a, "-mx="))
                          = plain
            /\ ~IsSome(level) => output.value = plain

C18_Witness ==
    /\ output.done
    /\ input.op = "add"
    /\ input.payload.compressionLevel = Some(9)
    /\ output.value[2] = "-mx=9"
    /\ Len(output.value) = 6

(***************************************************************************)
(* Claims about extract and preview calls (specification Spec).            *)
(***************************************************************************)
\* The extract calls that returned, the arguments after the vector's fixed
\* part, and the entry arguments and the count text a request stands for.
ExtractReturned(c) == calls[c].op = "extract" /\ calls[c].outcome = "returned"

ExtractEntryArguments(c) == SubSeq(calls[c].args, 6, Len(calls[c].args))

ExpectedEntryArguments(entries) ==
    IF entries = Some(<<"/x", "y">>) THEN <<"x", "y">> ELSE <<>>

ExpectedCount(entries) ==
    IF entries = Some(<<"/x", "y">>) THEN "2" ELSE "0"

\* C19 as stated: an extract that exits with 0 returns success with
\* 'Extracted N item(s) to <destination>', N the number of requested entries,
\* whenever entries was provided in the payload, and 'Extracted entire
\* archive to <destination>' when it was not; the entry arguments are the
\* requested entries in the first case and none in the second.
C19_MessageFollowsProvidedEntries ==
    \A c \in Calls :
        ExtractReturned(c) =>
            LET call == calls[c]
                entries == call.payload.entries
            IN  /\ call.value.success
                /\ ExtractEntryArguments(c) = ExpectedEntryArguments(entries)
                /\ call.value.message =
                      IF IsSome(entries)
                      THEN "Extracted " \o ExpectedCount(entries) \o " item(s) to "
                               \o call.destination
                      ELSE "Extracted entire archive to " \o call.destination

\* C19, amended: an extract that exits with 0 returns success with
\* 'Extracted N item(s) to <destination>', N the number of requested entries,
\* when entries was provided and is not empty, and 'Extracted entire archive
\* to <destination>' when entries is absent or empty; the entry arguments are
\* the requested entries (leading separators removed) in the first case and
\* none in the second; <destination> is the resolved destination.
C19_MessageFollowsNonEmptyEntries ==
    \A c \in Calls :
        ExtractReturned(c) =>
            LET call == calls[c]
                entries == call.payload.entries
            IN  /\ call.exitCode = Some(0)
                /\ call.value.success
                /\ call.destination = PathResolve(call.payload.destination)
                /\ SubSeq(call.args, 2, 5) =
                      <<"x", call.archivePath, "-o" \o call.destination, "-y">>
                /\ ExtractEntryArguments(c) = ExpectedEntryArguments(entries)
                /\ call.value.message =
                      IF IsSome(entries) /\ ValueOf(entries) # <<>>
                      THEN "Extracted " \o ExpectedCount(entries) \o " item(s) to "
                               \o call.destination
                      ELSE "Extracted entire archive to " \o call.destination

C19_Witness ==
    \E c \in Calls :
        /\ ExtractReturned(c)
        /\ calls[c].payload.entries = Some(<<"/x", "y">>)
        /\ calls[c].value.message = "Extracted 2 item(s) to /w/out"
        /\ ExtractEntryArguments(c) = <<"x", "y">>

\* a and b hold the same arguments, each as often, in whatever order.
SameArguments(a, b) ==
    /\ Len(a) = Len(b)
    /\ \A i \in 1..Len(a) :
           Cardinality({j \in 1..Len(a) : a[j] = a[i]})
               = Cardinality({j \in 1..Len(b) : b[j] = a[i]})

\* The temporary directories handed out so far.
TempDirsCreated == {TempDirName(n) : n \in 1..nextTemp}

\* C20: every preview call creates its own temporary directory before it
\* launches its subprocess; the subprocess is asked for exactly one entry with
\* that directory as output directory, with the arguments of an extract of
\* that one entry into it; the directory is one no earlier preview call was
\* given; and no step, of a succeeding or of a failing call, removes it.
C20_PreviewUsesOwnTempDir ==
    [][\A c \in Calls :
         LET call == calls'[c]
             launched == calls[c].pc = "mkdtemp" /\ call.pc = "running"
             scoped == [call.payload EXCEPT !.entries = Some(<<call.payload.entryPath>>)]
         IN  /\ (call.op = "preview" /\ call.spawned > calls[c].spawned) => launched
             /\ launched =>
                    /\ calls[c].spawned = 0
                    /\ call.spawned = 1
                    /\ call.tempDir \notin DOMAIN fsys
                    /\ call.tempDir \notin TempDirsCreated
                    /\ call.tempDir \in DOMAIN fsys'
                    /\ fsys'[call.tempDir] = "dir"
                    /\ SameArguments(Tail(call.args),
                           ExtractArgs(scoped, call.archivePath, call.tempDir))
                    /\ Len(call.args) = 6
                    /\ call.args[4] = normalizeEntryPath(call.payload.entryPath)
                    /\ call.args[5] = "-o" \o call.tempDir
             /\ (call.op = "preview" /\ call.pc \in {"running", "done"})
                    => call.tempDir \in DOMAIN fsys'
             /\ \A d \in TempDirsCreated : d \in DOMAIN fsys => d \in DOMAIN fsys'
      ]_vars

C20_Witness ==
    \E c \in Calls :
        /\ calls[c].op = "preview"
        /\ calls[c].pc = "done"
        /\ calls[c].outcome = "threw"
        /\ calls[c].settledBy = "close"
        /\ nextTemp = 2
        /\ calls[c].tempDir = TempDirName(2)
        /\ TempDirsCreated \subseteq DOMAIN fsys

(***************************************************************************)
(* Claims about concurrent calls (specification SpecConcurrent).           *)
(***************************************************************************)
\* The message an operation throws for a failed subprocess that wrote nothing
\* to stderr.
FallbackMessage(op) ==
    CASE op = "list" -> "Unable to list archive contents"
      [] op = "delete" -> "Unable to delete selected entries"
      [] OTHER -> ""

\* The log entries the chunks of call c can give rise to.
OwnLogEntries(c) == {Trim(x) : x \in StdoutChunksOf(c) \cup StderrChunksOf(c)}

\* The result of call c, settled by its subprocess's close event, follows from
\* c's own payload, exit code and chunks.
ResultIsOwn(c, call) ==
    LET ok == call.exitCode = Some(0)
        chunks == call.stdout \o call.stderr
        logs == [i \in 1..Len(chunks) |-> Trim(chunks[i])]
    IN  /\ (call.outcome = "returned") <=> (ok \/ call.op = "test")
        /\ call.outcome = "threw" =>
               call.value.error = IF call.stderr = <<>> THEN FallbackMessage(call.op)
                                  ELSE Trim(Join(call.stderr))
        /\ (call.outcome = "returned" /\ call.op = "list") =>
               /\ \A i \in 1..Len(call.value.entries) :
                      call.value.entries[i].path = c
               /\ call.value.entries = parseListOutput(Join(call.stdout), "/w/a.7z")
        /\ (call.outcome = "returned" /\ call.op # "list") =>
               /\ call.value.success = ok
               /\ call.value.logs = logs
               /\ \A i \in 1..Len(call.value.logs) :
                      call.value.logs[i] \in OwnLogEntries(c)
               /\ call.op = "delete" =>
                      call.value.message
                          = "Deleted " \o ToString(Len(EntriesOf(c))) \o " item(s)"

\* C21: with two calls in flight and the events of their subprocesses
\* interleaved in any order, every step changes the state of one call only,
\* a call's buffers grow only by chunks of its own subprocess, appended in
\* arrival order, and the result of a call follows from its own payload, exit
\* code and chunks: nothing of the other call appears in it.
C21_CallsAreIsolated ==
    [][/\ \E c \in ConcurrentCalls :
            \A d \in ConcurrentCalls \ {c} : calls'[d] = calls[d]
       /\ \A c \in ConcurrentCalls :
            /\ calls'[c].stdout # calls[c].stdout =>
                   \E x \in StdoutChunksOf(c) :
                       calls'[c].stdout = Append(calls[c].stdout, x)
            /\ calls'[c].stderr # calls[c].stderr =>
                   \E x \in StderrChunksOf(c) :
                       calls'[c].stderr = Append(calls[c].stderr, x)
            /\ (calls[c].pc # "done" /\ calls'[c].pc = "done"
                   /\ calls'[c].settledBy = "close")
                 => ResultIsOwn(c, calls'[c])
      ]_vars

C21_Witness ==
    /\ calls["c1"].op = "list"
    /\ calls["c1"].outcome = "returned"
    /\ Len(calls["c1"].value.entries) = 1
    /\ calls["c2"].op = "delete"
    /\ calls["c2"].child = "running"
    /\ Len(calls["c2"].stdout) = 2
    /\ Len(calls["c2"].stderr) = 1

(***************************************************************************)
(* JavaScript values and JSON texts (src/src/core/workspace/settings.ts).  *)
(* A value is a record of one shape: t is its type, and the field of that  *)
(* type holds it (o maps the keys of an object to values).                 *)
(***************************************************************************)
JUndefined == [t |-> "undefined", b |-> FALSE, n |-> 0, s |-> "", o |-> <<>>]
JNull == [t |-> "null", b |-> FALSE, n |-> 0, s |-> "", o |-> <<>>]
JBool(b) == [t |-> "boolean", b |-> b, n |-> 0, s |-> "", o |-> <<>>]
JNum(n) == [t |-> "number", b |-> FALSE, n |-> n, s |-> "", o |-> <<>>]
JStr(s) == [t |-> "string", b |-> FALSE, n |-> 0, s |-> s, o |-> <<>>]
\* An object is written as a sequence of <<key, value>> pairs, later pairs
\* overriding earlier ones, and held as the function from its keys.
JObj(pairs) ==
    [t |-> "object", b |-> FALSE, n |-> 0, s |-> "",
     o |-> [k \in {pairs[i][1] : i \in 1..Len(pairs)} |->
              LET at == {i \in 1..Len(pairs) : pairs[i][1] = k}
              IN  pairs[Max(at)][2]]]

\* Boolean(value)
ToBoolean(v) ==
    CASE v.t = "boolean" -> v.b
      [] v.t = "number" -> v.n # 0
      [] v.t = "string" -> v.s # ""
      [] v.t = "object" -> TRUE
      [] OTHER -> FALSE

\* value ?? fallback
Coalesce(v, fallback) == IF v.t \in {"undefined", "null"} THEN fallback ELSE v

\* value[key] of a value that is not null or undefined: the property of an
\* object, undefined on a primitive
GetProperty(v, key) ==
    IF v.t = "object" /\ key \in DOMAIN v.o THEN v.o[key] ELSE JUndefined

\* The tokens of a JSON text from position i on: the punctuation marks, the
\* strings (kind "str", without escapes) and the runs of other characters
\* (kind "lit": true, false, null, a number, or nothing JSON knows).
JsonWhiteSpace == {" ", "\t", "\n", "\r"}
JsonPunctuation == {"{", "}", ":", ","}

RECURSIVE Tokens(_, _)
Tokens(text, i) ==
    LET starts == {j \in i..Len(text) : CharAt(text, j) \notin JsonWhiteSpace}
    IN  IF starts = {} THEN <<>>
        ELSE LET at == Min(starts)
                 ch == CharAt(text, at)
             IN  IF ch \in JsonPunctuation
                 THEN <<[k |-> ch, v |-> ""]>> \o Tokens(text, at + 1)
                 ELSE IF ch = "\""
                 THEN LET ends == {j \in (at + 1)..Len(text) : CharAt(text, j) = "\""}
                      IN  IF ends = {} THEN <<[k |-> "bad", v |-> ""]>>
                          ELSE <<[k |-> "str",
                                  v |-> SubSeq(text, at + 1, Min(ends) - 1)]>>
                                   \o Tokens(text, Min(ends) + 1)
                 ELSE LET stops == {j \in at..Len(text) :
                                       CharAt(text, j) \in JsonWhiteSpace
                                           \cup JsonPunctuation \cup {"\""}}
                          last == IF stops = {} THEN Len(text) ELSE Min(stops) - 1
                      IN  <<[k |-> "lit", v |-> SubSeq(text, at, last)]>>
                              \o Tokens(text, last + 1)

\* A JSON integer: 0, or digits that do not start with 0, with an optional '-'.
IsJsonInteger(lit) ==
    LET body == IF CharAt(lit, 1) = "-" THEN Tail(lit) ELSE lit
    IN  /\ body # ""
        /\ AllIn(Digits, body)
        /\ (Len(body) > 1 => CharAt(body, 1) # "0")

IsScalarToken(tok) ==
    \/ tok.k = "str"
    \/ tok.k = "lit" /\ (tok.v \in {"true", "false", "null"} \/ IsJsonInteger(tok.v))

ScalarOf(tok) ==
    IF tok.k = "str" THEN JStr(tok.v)
    ELSE IF tok.v = "true" THEN JBool(TRUE)
    ELSE IF tok.v = "false" THEN JBool(FALSE)
    ELSE IF tok.v = "null" THEN JNull
    ELSE IF CharAt(tok.v, 1) = "-" THEN JNum(0 - ValueIn(Digits, Tail(tok.v), 0))
    ELSE JNum(ValueIn(Digits, tok.v, 0))

\* Whether toks is  key : scalar , key : scalar ...  (at least one member).
RECURSIVE AreMembers(_)
AreMembers(toks) ==
    /\ Len(toks) >= 3
    /\ toks[1].k = "str" /\ toks[2].k = ":" /\ IsScalarToken(toks[3])
    /\ \/ Len(toks) = 3
       \/ /\ toks[4].k = ","
          /\ AreMembers(SubSeq(toks, 5, Len(toks)))

\* The <<key, value>> pairs of a member list.
MemberPairs(toks) ==
    [i \in 1..((Len(toks) + 1) \div 4) |->
        <<toks[4 * i - 3].v, ScalarOf(toks[4 * i - 1])>>]

Parsed(v) == [ok |-> TRUE, value |-> v]
SyntaxError == [ok |-> FALSE, value |-> JUndefined]

\* JSON.parse(text) for the texts of the model: a scalar, or an object whose
\* members are scalars. ok is FALSE where JSON.parse throws a SyntaxError.
JsonParse(text) ==
    LET toks == Tokens(text, 1)
        n == Len(toks)
    IN  IF n = 1 /\ IsScalarToken(toks[1]) THEN Parsed(ScalarOf(toks[1]))
        ELSE IF n >= 2 /\ toks[1].k = "{" /\ toks[n].k = "}"
             THEN IF n = 2 THEN Parsed(JObj(<<>>))
                  ELSE IF AreMembers(SubSeq(toks, 2, n - 1))
                       THEN Parsed(JObj(MemberPairs(SubSeq(toks, 2, n - 1))))
                       ELSE SyntaxError
             ELSE SyntaxError

(***************************************************************************)
(* Bytes and texts: files hold bytes, JSON is read and written as text.    *)
(***************************************************************************)
\* The printable ASCII characters in code order, 32 to 95 and 97 to 126
\* (no text of the model holds a grave accent, 96).
PrintableLow == " !\"#$%&'()*+,-./0123456789:;<=>?@ABCDEFGHIJKLMNOPQRSTUVWXYZ[\\]^_"
PrintableHigh == "abcdefghijklmnopqrstuvwxyz{|}~"

\* The UTF-8 code of the characters of the model's texts (all are ASCII).
CharCode ==
    [ch \in {CharAt(PrintableLow, i) : i \in 1..Len(PrintableLow)}
              \cup {CharAt(PrintableHigh, i) : i \in 1..Len(PrintableHigh)}
              \cup {"\t", "\n", "\r"} |->
        IF ch = "\t" THEN 9 ELSE IF ch = "\n" THEN 10 ELSE IF ch = "\r" THEN 13
        ELSE IF IndexIn(PrintableLow, ch) > 0 THEN 31 + IndexIn(PrintableLow, ch)
        ELSE 96 + IndexIn(PrintableHigh, ch)]

\* Buffer.from(text, 'utf-8')
Utf8Encode(text) == [i \in 1..Len(text) |-> CharCode[CharAt(text, i)]]

\* The character of a byte that is not a control character other than tab
\* and the line ends; a byte that is not ASCII is shown as '?' (where the
\* decoder puts U+FFFD or a character beyond ASCII).
CharOfByte(byte) ==
    IF byte = 9 THEN "\t" ELSE IF byte = 10 THEN "\n" ELSE IF byte = 13 THEN "\r"
    ELSE IF byte >= 32 /\ byte <= 95 THEN CharAt(PrintableLow, byte - 31)
    ELSE IF byte >= 97 /\ byte <= 126 THEN CharAt(PrintableHigh, byte - 96)
    ELSE "?"

RECURSIVE Utf8Decode(_)
\* buffer.toString('utf-8'), the halves of the buffer decoded in turn
Utf8Decode(bytes) ==
    IF Len(bytes) = 0 THEN ""
    ELSE IF Len(bytes) = 1 THEN CharOfByte(bytes[1])
    ELSE Utf8Decode(SubSeq(bytes, 1, Len(bytes) \div 2))
             \o Utf8Decode(SubSeq(bytes, Len(bytes) \div 2 + 1, Len(bytes)))

\* JSON.parse of the text of a buffer: a control character other than tab
\* and the line ends is a SyntaxError wherever it stands.
JsonParseBytes(bytes) ==
    IF \E i \in 1..Len(bytes) : bytes[i] < 32 /\ bytes[i] \notin {9, 10, 13}
    THEN SyntaxError
    ELSE JsonParse(Utf8Decode(bytes))

(***************************************************************************)
(* Workspace settings (src/src/core/workspace/settings.ts).                *)
(***************************************************************************)
defaultSettings ==
    [privacyMode |-> FALSE, stripMetadata |-> TRUE,
     telemetryLevel |-> "minimal", rememberSecrets |-> FALSE]

\* Faulty variant of normalizeTelemetryLevel: the level is compared without regard
\* to case.
normalizeTelemetryLevelAnyCase(value) ==
    IF value.t = "string" /\ ToLowerCase(value.s) = "full" THEN "full" ELSE "minimal"

normalizeTelemetryLevel(value) ==
    IF value.t = "string" /\ value.s = "full" THEN "full" ELSE "minimal"

\* Whether normalizeSettings(partial) throws: reading a property of null is a
\* TypeError (undefined is replaced by {} by the default parameter).
NormalizeThrows(partial) == partial.t = "null"

normalizeSettings(partial) ==
    [privacyMode |->
        ToBoolean(Coalesce(GetProperty(partial, "privacyMode"),
                           JBool(defaultSettings.privacyMode))),
     stripMetadata |->
        ToBoolean(Coalesce(GetProperty(partial, "stripMetadata"),
                           JBool(defaultSettings.stripMetadata))),
     telemetryLevel |-> normalizeTelemetryLevel(GetProperty(partial, "telemetryLevel")),
     rememberSecrets |->
        ToBoolean(Coalesce(GetProperty(partial, "rememberSecrets"),
                           JBool(defaultSettings.rememberSecrets)))]

\* An AppSettings record as the JavaScript object it is.
SettingsObject(settings) ==
    JObj(<<<<"privacyMode", JBool(settings.privacyMode)>>,
           <<"stripMetadata", JBool(settings.stripMetadata)>>,
           <<"telemetryLevel", JStr(settings.telemetryLevel)>>,
           <<"rememberSecrets", JBool(settings.rememberSecrets)>>>>)

BoolText(b) == IF b THEN "true" ELSE "false"

\* JSON.stringify(normalized, null, 2)
JsonStringify(settings) ==
    "{\n  \"privacyMode\": " \o BoolText(settings.privacyMode)
        \o ",\n  \"stripMetadata\": " \o BoolText(settings.stripMetadata)
        \o ",\n  \"telemetryLevel\": \"" \o settings.telemetryLevel
        \o "\",\n  \"rememberSecrets\": " \o BoolText(settings.rememberSecrets)
        \o "\n}"

\* The disk of the settings functions: every path that exists has an entry,
\* which for a file holds its bytes.
DirEntry == [kind |-> "dir", bytes |-> <<>>]
FileEntry(bytes) == [kind |-> "file", bytes |-> bytes]

\* fs.mkdirSync(dir, {recursive: true}) where no file is in the way
MkdirSync(fs, dir) ==
    LET made == (Ancestors(dir) \cup {dir}) \ DOMAIN fs
    IN  [q \in DOMAIN fs \cup made |-> IF q \in made THEN DirEntry ELSE fs[q]]

\* fs.writeFileSync(p, bytes)
WriteFileSync(fs, p, bytes) ==
    [q \in DOMAIN fs \cup {p} |-> IF q = p THEN FileEntry(bytes) ELSE fs[q]]

\* path.dirname(p) of an absolute path below the root
Dirname(p) ==
    LET segs == SplitChars({"/"}, p)
    IN  IF Len(segs) <= 2 THEN "/" ELSE JoinWith(SubSeq(segs, 1, Len(segs) - 1), "/")

\* readSettings(filePath) on the disk fs
readSettings(fs, filePath) ==
    IF ~existsSync(fs, filePath) THEN defaultSettings
    ELSE LET parsed == JsonParseBytes(fs[filePath].bytes)
         IN  IF ~parsed.ok \/ NormalizeThrows(parsed.value) THEN defaultSettings
             ELSE normalizeSettings(parsed.value)

\* The disk after writeSettings(filePath, settings), which returns
\* normalizeSettings(settings).
writeSettings(fs, filePath, settings) ==
    WriteFileSync(MkdirSync(fs, Dirname(filePath)), filePath,
                  Utf8Encode(JsonStringify(normalizeSettings(settings))))

SampleLimit == 1024

\* byte < 7 || (byte > 14 && byte < 32)
IsSuspicious(byte) == byte < 7 \/ (byte > 14 /\ byte < 32)

\* isProbablyBinary(buffer): a zero byte among the first SampleLimit bytes,
\* or suspiciousBytes / maxSample > 0.3 (no quotient of two such integers
\* lies between 3/10 and the double 0.3, so the integers decide it).
isProbablyBinary(buffer) ==
    LET maxSample == Min({Len(buffer), SampleLimit})
        suspiciousBytes == Cardinality({i \in 1..maxSample : IsSuspicious(buffer[i])})
    IN  /\ Len(buffer) # 0
        /\ \/ \E i \in 1..maxSample : buffer[i] = 0
           \/ 10 * suspiciousBytes > 3 * maxSample

\* The outcome of a settings function: it threw error, or returned value.
Returned(value) == [threw |-> FALSE, error |-> "", value |-> value]
Thrown(error) == [threw |-> TRUE, error |-> error, value |-> defaultSettings]

\* The messages of the errors JSON.parse and the property read of null throw
\* (their wording is the JavaScript engine's).
SyntaxErrorMessage == "Unexpected token in JSON"
TypeErrorMessage == "Cannot read properties of null"

\* Faulty variant of importSettingsFile: the destination is emptied before the
\* source is looked at.
importSettingsFileTruncating(fs, destinationPath, sourcePath) ==
    LET emptied == WriteFileSync(fs, destinationPath, <<>>)
        parsed == JsonParseBytes(fs[sourcePath].bytes)
    IN  IF ~existsSync(fs, sourcePath)
        THEN [fs |-> emptied, result |-> Thrown("Source settings file not found")]
        ELSE IF isProbablyBinary(fs[sourcePath].bytes)
        THEN [fs |-> emptied, result |-> Thrown("Binary files are not supported")]
        ELSE IF ~parsed.ok
        THEN [fs |-> emptied, result |-> Thrown(SyntaxErrorMessage)]
        ELSE IF NormalizeThrows(parsed.value)
        THEN [fs |-> emptied, result |-> Thrown(TypeErrorMessage)]
        ELSE [fs |-> writeSettings(fs, destinationPath, parsed.value),
              result |-> Returned(normalizeSettings(parsed.value))]

\* importSettingsFile(destinationPath, sourcePath) on the disk fs: the disk
\* it leaves and its outcome.
importSettingsFile(fs, destinationPath, sourcePath) ==
    LET parsed == JsonParseBytes(fs[sourcePath].bytes)
    IN  IF ~existsSync(fs, sourcePath)
        THEN [fs |-> fs, result |-> Thrown("Source settings file not found")]
        ELSE IF isProbablyBinary(fs[sourcePath].bytes)
        THEN [fs |-> fs, result |-> Thrown("Binary files are not supported")]
        ELSE IF ~parsed.ok
        THEN [fs |-> fs, result |-> Thrown(SyntaxErrorMessage)]
        ELSE IF NormalizeThrows(parsed.value)
        THEN [fs |-> fs, result |-> Thrown(TypeErrorMessage)]
        ELSE [fs |-> writeSettings(fs, destinationPath, parsed.value),
              result |-> Returned(normalizeSettings(parsed.value))]

(***************************************************************************)
(* The settings functions at work on one disk (specification               *)
(* SpecSettings): the main process rewrites the settings file at startup,  *)
(* and reads, writes and imports it afterwards. input is the settings      *)
(* object handed to writeSettings.                                         *)
(***************************************************************************)
SettingsPath == "/u/settings.json"
SourcePath == "/s/in.json"

\* The settings file before the application first touches it.
InitialSettingsTexts ==
    {"", "{}", "not json", "null",
     "{\"telemetryLevel\":\"full\"}",
     "{\"privacyMode\": 1, \"telemetryLevel\": \"FULL\", \"other\": 2}",
     JsonStringify(defaultSettings),
     JsonStringify([defaultSettings EXCEPT !.privacyMode = TRUE,
                                           !.telemetryLevel = "full"])}

\* count bytes of the value byte
Repeat(byte, count) == [i \in 1..count |-> byte]

\* The file a user may pick for import.
SourceBuffers ==
    {Utf8Encode(JsonStringify([defaultSettings EXCEPT !.privacyMode = TRUE,
                                                      !.stripMetadata = FALSE])),
     Utf8Encode("{\"telemetryLevel\": \"full\", \"rememberSecrets\": \"yes\"}"),
     Utf8Encode("null"),
     Utf8Encode("not json"),
     <<>>,
     <<0, 159, 146, 150>>,
     Utf8Encode("{}") \o <<0>>,
     Repeat(32, SampleLimit) \o <<0>>,
     Repeat(1, 4) \o Repeat(32, 6),
     Repeat(1, 3) \o Repeat(32, 7),
     Repeat(7, 4) \o Repeat(14, 4),
     Repeat(32, SampleLimit) \o Repeat(1, SampleLimit)}

\* The objects a caller may hand to writeSettings: every field absent or of
\* some value, and the absent argument.
SettingsInputs ==
    {JObj(p \o t \o m) :
        p \in {<<>>, <<<<"privacyMode", JBool(TRUE)>>>>,
               <<<<"privacyMode", JNum(1)>>>>, <<<<"privacyMode", JNull>>>>},
        t \in {<<>>, <<<<"telemetryLevel", JStr("full")>>>>,
               <<<<"telemetryLevel", JStr("unknown")>>>>},
        m \in {<<>>, <<<<"stripMetadata", JBool(FALSE)>>>>}}
    \cup {JUndefined,
          JObj(<<<<"rememberSecrets", JStr("yes")>>, <<"stripMetadata", JBool(TRUE)>>>>),
          JObj(<<<<"privacyMode", JNum(0)>>, <<"stripMetadata", JStr("")>>>>),
          JObj(<<<<"telemetryLevel", JStr("FULL")>>, <<"rememberSecrets", JBool(TRUE)>>>>),
          JObj(<<<<"telemetryLevel", JNum(1)>>, <<"stripMetadata", JNull>>>>),
          JObj(<<<<"telemetryLevel", JStr("minimal")>>, <<"privacyMode", JStr("no")>>>>)}

InitialDisks ==
    {[q \in {"/s"} |-> DirEntry]}
    \cup {[q \in {"/s", "/u", SettingsPath} |->
             IF q = SettingsPath THEN FileEntry(Utf8Encode(text)) ELSE DirEntry] :
          text \in InitialSettingsTexts}

\* Either there is no file to import and the caller writes any of the
\* settings objects, or there is one and the caller writes the empty object.
InitSettings ==
    /\ \E disk \in InitialDisks :
         \/ fsys = disk /\ input \in SettingsInputs
         \/ \E buffer \in SourceBuffers :
                /\ fsys = WriteFileSync(disk, SourcePath, buffer)
                /\ input = JObj(<<>>)
    /\ nextTemp = 0
    /\ calls = [c \in Calls |-> IdleCall]
    /\ fn = "none"
    /\ output = Pending

\* writeSettings(settingsPath, input)
WriteSettingsCall ==
    /\ fsys' = writeSettings(fsys, SettingsPath, input)
    /\ fn' = "writeSettings"
    /\ output' = Done(Returned(normalizeSettings(input)))
    /\ UNCHANGED <<nextTemp, calls, input>>

\* readSettings(settingsPath)
ReadSettingsCall ==
    /\ fn' = "readSettings"
    /\ output' = Done(Returned(readSettings(fsys, SettingsPath)))
    /\ UNCHANGED <<fsys, nextTemp, calls, input>>

\* Faulty variant of StartupRewrite: the defaults are written at every start.
StartupReset ==
    /\ fsys' = writeSettings(fsys, SettingsPath, SettingsObject(defaultSettings))
    /\ fn' = "startup"
    /\ output' = Done(Returned(defaultSettings))
    /\ UNCHANGED <<nextTemp, calls, input>>

\* app.whenReady: writeSettings(settingsPath, readSettings(settingsPath))
StartupRewrite ==
    LET loaded == readSettings(fsys, SettingsPath)
    IN  /\ fsys' = writeSettings(fsys, SettingsPath, SettingsObject(loaded))
        /\ fn' = "startup"
        /\ output' = Done(Returned(normalizeSettings(SettingsObject(loaded))))
        /\ UNCHANGED <<nextTemp, calls, input>>

\* importSettingsFile(settingsPath, sourcePath)
ImportSettingsCall ==
    LET done == importSettingsFile(fsys, SettingsPath, SourcePath)
    IN  /\ fsys' = done.fs
        /\ fn' = "importSettingsFile"
        /\ output' = Done(done.result)
        /\ UNCHANGED <<nextTemp, calls, input>>

NextSettings ==
    \/ WriteSettingsCall
    \/ ReadSettingsCall
    \/ StartupRewrite
    \/ ImportSettingsCall

SpecSettings == InitSettings /\ [][NextSettings]_vars

(***************************************************************************)
(* Claims about the settings (specification SpecSettings).                 *)
(***************************************************************************)
\* The values of the model's settings objects that Boolean() turns into true.
TruthyValues == {JBool(TRUE), JNum(1), JStr("yes"), JStr("no")}

\* A boolean field as the claim describes it: the default when the field is
\* missing (absent, or null), true for a truthy value, false otherwise.
ExpectedFlag(partial, key, default) ==
    IF partial.t # "object" \/ key \notin DOMAIN partial.o \/ partial.o[key] = JNull
    THEN default
    ELSE partial.o[key] \in TruthyValues

ExpectedSettings(partial) ==
    [privacyMode |-> ExpectedFlag(partial, "privacyMode", FALSE),
     stripMetadata |-> ExpectedFlag(partial, "stripMetadata", TRUE),
     telemetryLevel |->
        IF partial.t = "object" /\ "telemetryLevel" \in DOMAIN partial.o
              /\ partial.o["telemetryLevel"] = JStr("full")
        THEN "full" ELSE "minimal",
     rememberSecrets |-> ExpectedFlag(partial, "rememberSecrets", FALSE)]

\* C22: readSettings(p) after writeSettings(p, s) returns normalizeSettings(s),
\* which writeSettings returned too: a record of exactly the four fields,
\* privacyMode, stripMetadata and rememberSecrets booleans (true for a truthy
\* input, the defaults false / true / false for a missing one), telemetryLevel
\* 'full' only for the input 'full' and 'minimal' otherwise; normalizing it
\* again changes nothing.
C22_ReadAfterWriteIsNormalized ==
    [][fn' = "writeSettings" =>
          \E loaded \in {readSettings(fsys', SettingsPath)} :
              /\ loaded = normalizeSettings(input)
              /\ loaded = output'.value.value
              /\ loaded = ExpectedSettings(input)
              /\ DOMAIN loaded = {"privacyMode", "stripMetadata",
                                  "telemetryLevel", "rememberSecrets"}
              /\ loaded.privacyMode \in BOOLEAN
              /\ loaded.stripMetadata \in BOOLEAN
              /\ loaded.rememberSecrets \in BOOLEAN
              /\ loaded.telemetryLevel \in {"full", "minimal"}
              /\ normalizeSettings(SettingsObject(loaded)) = loaded
      ]_vars

C22_Witness ==
    /\ fn = "writeSettings"
    /\ input = JObj(<<<<"telemetryLevel", JStr("FULL")>>,
                      <<"rememberSecrets", JBool(TRUE)>>>>)
    /\ output.value.value = [defaultSettings EXCEPT !.rememberSecrets = TRUE]
    /\ readSettings(fsys, SettingsPath) = output.value.value

\* The settings file holds a text writeSettings produces: the text of the
\* settings that are read from it.
IsCanonical(fs) ==
    /\ existsSync(fs, SettingsPath)
    /\ fs[SettingsPath].bytes
          = Utf8Encode(JsonStringify(readSettings(fs, SettingsPath)))

\* C23 as stated: writing back what was read changes nothing on disk, in
\* every state of the settings file.
C23_RewriteChangesNothing ==
    [][fn' = "startup" => fsys' = fsys]_vars

\* C23, amended: writing back what was read changes nothing on disk when the
\* settings file holds a text writeSettings produced; from every state of the
\* file it leaves such a text, so that a second rewrite changes nothing, and
\* it never changes what readSettings returns.
C23_RewriteIsIdempotent ==
    [][fn' = "startup" =>
          \E loaded \in {readSettings(fsys', SettingsPath)} :
              /\ IsCanonical(fsys) => fsys' = fsys
              /\ existsSync(fsys', SettingsPath)
              /\ fsys'[SettingsPath].bytes = Utf8Encode(JsonStringify(loaded))
              /\ writeSettings(fsys', SettingsPath, SettingsObject(loaded)) = fsys'
              /\ loaded = readSettings(fsys, SettingsPath)
      ]_vars

C23_Witness ==
    /\ fn = "startup"
    /\ IsCanonical(fsys)
    /\ output.value.value = [defaultSettings EXCEPT !.telemetryLevel = "full"]
    /\ readSettings(fsys, SettingsPath) = output.value.value

\* The size of the sample of a buffer and what the check looks for in it.
SampleOf(buffer) == 1..Min({Len(buffer), SampleLimit})
HasZeroByte(buffer) == \E i \in 1..Len(buffer) : buffer[i] = 0
HasZeroByteInSample(buffer) == \E i \in SampleOf(buffer) : buffer[i] = 0
IsDense(buffer) ==
    /\ Len(buffer) > 0
    /\ 10 * Cardinality({i \in SampleOf(buffer) : IsSuspicious(buffer[i])})
          > 3 * Cardinality(SampleOf(buffer))

\* C24 as stated: importSettingsFile rejects with 'Binary files are not
\* supported' every source file that contains a null byte or whose first 1KB
\* has more than 30% control characters; whenever import fails the
\* destination settings file is left unchanged.
C24_EveryZeroByteIsRejected ==
    [][fn' = "importSettingsFile" =>
          /\ (/\ existsSync(fsys, SourcePath)
              /\ \/ HasZeroByte(fsys[SourcePath].bytes)
                 \/ IsDense(fsys[SourcePath].bytes))
             => /\ output'.value.threw
                /\ output'.value.error = "Binary files are not supported"
          /\ output'.value.threw => fsys' = fsys
      ]_vars

\* C24, amended: importSettingsFile rejects with 'Binary files are not
\* supported' exactly the source files that hold a null byte among their
\* first 1024 bytes or of whose first 1024 bytes more than 30% are below 7 or
\* from 15 to 31; import fails for a missing source, such a file, a text
\* that is not JSON and the JSON text null, and whenever it fails the disk,
\* the destination settings file included, is left unchanged.
C24_BinarySampleIsRejected ==
    [][fn' = "importSettingsFile" =>
          LET missing == ~existsSync(fsys, SourcePath)
              buffer == fsys[SourcePath].bytes
              binary == HasZeroByteInSample(buffer) \/ IsDense(buffer)
          IN  /\ output'.value.error = "Binary files are not supported"
                 <=> (~missing /\ binary)
              /\ output'.value.threw
                 <=> (missing \/ binary
                        \/ \E parsed \in {JsonParseBytes(buffer)} :
                               ~parsed.ok \/ parsed.value = JNull)
              /\ output'.value.threw => fsys' = fsys
              /\ ~output'.value.threw =>
                    readSettings(fsys', SettingsPath) = output'.value.value
      ]_vars

C24_Witness ==
    /\ fn = "importSettingsFile"
    /\ output.value.threw
    /\ output.value.error = "Binary files are not supported"
    /\ fsys[SourcePath].bytes = Repeat(1, 4) \o Repeat(32, 6)
    /\ IsCanonical(fsys)

(***************************************************************************)
(* The secret vault (src/src/core/security/vault.ts).                      *)
(***************************************************************************)
\* crypto.createHash('sha256').update(masterKey).digest(): the digest stands
\* for its master key, two master keys never sharing one.
deriveKey(masterKey) == <<"sha256", masterKey>>

\* new SecretVault({vaultPath, masterKey})
SecretVault(vaultPath, masterKey) == [vaultPath |-> vaultPath, key |-> deriveKey(masterKey)]

\* JSON.stringify of one StoredSecret and of the payload
SecretText(secret) ==
    "{\"id\":\"" \o secret.id \o "\",\"value\":\"" \o secret.value \o "\"}"

StringifySecrets(payload) ==
    "[" \o JoinWith([i \in 1..Len(payload) |-> SecretText(payload[i])], ",") \o "]"

\* JSON.parse, from the tokens of the text, of an array whose elements are
\* objects of scalars, read as StoredSecret[]: element i is the tokens
\* { k : v , k : v }  from token 10 * i - 8 on, a comma between two elements.
IsSecretElement(g) ==
    /\ g[1].k = "{" /\ g[9].k = "}"
    /\ AreMembers(SubSeq(g, 2, 8))

SecretOfObject(object) ==
    [id |-> GetProperty(object, "id").s, value |-> GetProperty(object, "value").s]

SecretElement(g) == SecretOfObject(JObj(MemberPairs(SubSeq(g, 2, 8))))

ParseSecretTokens(toks, n, count) ==
    IF n = 1 /\ toks[1] = [k |-> "lit", v |-> "[]"] THEN [ok |-> TRUE, value |-> <<>>]
    ELSE IF /\ n >= 11 /\ n = 10 * count + 1
            /\ toks[1] = [k |-> "lit", v |-> "["]
            /\ toks[n] = [k |-> "lit", v |-> "]"]
            /\ \A i \in 1..count : IsSecretElement(SubSeq(toks, 10 * i - 8, 10 * i))
            /\ \A i \in 1..(count - 1) : toks[10 * i + 1].k = ","
         THEN [ok |-> TRUE,
               value |-> [i \in 1..count |->
                            SecretElement(SubSeq(toks, 10 * i - 8, 10 * i))]]
         ELSE [ok |-> FALSE, value |-> <<>>]

ParseSecretArray(toks) == ParseSecretTokens(toks, Len(toks), (Len(toks) - 1) \div 10)

ParseSecrets(text) == ParseSecretArray(Tokens(text, 1))

\* serializePayload(payload, key), iv being what crypto.randomBytes(12) gave:
\* the base64 text of iv, tag and ciphertext, held as what it was made of.
\* The tag of AES-256-GCM is right under the key that made it and no other.
serializePayload(payload, key, iv) ==
    [iv |-> iv, tag |-> key, encrypted |-> StringifySecrets(payload)]

\* The outcome of a vault method: it threw error, or returned value (a list
\* of secrets: getSecret's undefined is the empty list).
VaultReturned(value) == [threw |-> FALSE, error |-> "", value |-> value]
VaultThrown(error) == [threw |-> TRUE, error |-> error, value |-> <<>>]

AuthenticationMessage == "Unsupported state or unable to authenticate data"

\* What deserializePayload gives for the outcome of JSON.parse.
PayloadOutcome(parsed) ==
    IF parsed.ok THEN VaultReturned(parsed.value) ELSE VaultThrown(SyntaxErrorMessage)

\* Faulty variant of deserializePayload: the authentication tag is not checked.
deserializePayloadUnauthenticated(encoded, key) ==
    PayloadOutcome(ParseSecrets(encoded.encrypted))

\* deserializePayload(encoded, key): decipher.final() throws unless the tag
\* is right under key, JSON.parse throws on what is not JSON.
deserializePayload(encoded, key) ==
    IF encoded.tag # key THEN VaultThrown(AuthenticationMessage)
    ELSE PayloadOutcome(ParseSecrets(encoded.encrypted))

\* The catch of loadAll: an error of deserializePayload is thrown again
\* behind 'Failed to read vault: '.
Rethrown(read) ==
    IF read.threw THEN VaultThrown("Failed to read vault: " \o read.error) ELSE read

\* vault.loadAll() on the disk fs
loadAll(fs, vault) ==
    IF ~existsSync(fs, vault.vaultPath) THEN VaultReturned(<<>>)
    ELSE Rethrown(deserializePayload(fs[vault.vaultPath].bytes, vault.key))

\* secrets.filter((entry) => entry.id !== id) when keep is FALSE, and
\* secrets.filter((entry) => entry.id === id) when it is TRUE
RECURSIVE FilterById(_, _, _)
FilterById(secrets, id, keep) ==
    IF secrets = <<>> THEN <<>>
    ELSE IF (Head(secrets).id = id) = keep
         THEN <<Head(secrets)>> \o FilterById(Tail(secrets), id, keep)
         ELSE FilterById(Tail(secrets), id, keep)

\* The rest of storeSecret once loadAll has settled with secrets: its error
\* is passed on, or payload is encrypted and written.
WriteVault(fs, vault, secrets, payload, iv) ==
    IF secrets.threw THEN [fs |-> fs, result |-> secrets]
    ELSE [fs |-> WriteFileSync(fs, vault.vaultPath,
                               serializePayload(payload, vault.key, iv)),
          result |-> VaultReturned(<<>>)]

\* Faulty variant of StoreLoaded: the secret is added without removing the one
\* the vault holds under its id.
StoreLoadedAppending(fs, vault, secret, secrets, iv) ==
    WriteVault(fs, vault, secrets, Append(secrets.value, secret), iv)

\* storeSecret after loadAll: filter, push, serializePayload, writeFileSync
StoreLoaded(fs, vault, secret, secrets, iv) ==
    WriteVault(fs, vault, secrets,
               Append(FilterById(secrets.value, secret.id, FALSE), secret), iv)

\* vault.storeSecret(secret, remember): the disk afterwards and the outcome
storeSecret(fs, vault, secret, remember, iv) ==
    IF ~remember THEN [fs |-> fs, result |-> VaultReturned(<<>>)]
    ELSE StoreLoaded(fs, vault, secret, loadAll(fs, vault), iv)

\* secrets.find((entry) => entry.id === id), undefined being the empty list
Find(secrets, id) ==
    IF \E i \in 1..Len(secrets) : secrets[i].id = id
    THEN <<secrets[Min({i \in 1..Len(secrets) : secrets[i].id = id})]>>
    ELSE <<>>

\* The rest of getSecret once loadAll has settled with secrets.
FindLoaded(secrets, id) ==
    IF secrets.threw THEN secrets ELSE VaultReturned(Find(secrets.value, id))

\* vault.getSecret(id): the first secret of that id, if any
getSecret(fs, vault, id) == FindLoaded(loadAll(fs, vault), id)

(***************************************************************************)
(* Specification SpecVault: two vaults opened on one vault file, the       *)
(* owner's with the master key that writes the file and another with a     *)
(* different master key, which is opened once the file exists. calls is    *)
(* the list of the owner's storeSecret calls so far, each with whether it  *)
(* changed the disk, input the arguments of the last call of either vault. *)
(***************************************************************************)
VaultPath == "/v/.forgezip.vault"
OwnerVault == SecretVault(VaultPath, "integration-key")
OtherVault == SecretVault(VaultPath, "wrong-key")
Vaults == {OwnerVault, OtherVault}
SecretIds == {"cloud", "ftp"}
SecretValues == {"token-123", "token-456"}
Secrets == [id : SecretIds, value : SecretValues]
Ivs == {1, 2}

IsOpen(vault) == vault = OwnerVault \/ existsSync(fsys, VaultPath)

InitVault ==
    /\ fsys = [q \in {"/v"} |-> DirEntry]
    /\ nextTemp = 0
    /\ calls = <<>>
    /\ fn = "none"
    /\ input = [vault |-> OwnerVault]
    /\ output = Pending

StoreSecretCall ==
    \E vault \in Vaults, secret \in Secrets, remember \in BOOLEAN, iv \in Ivs :
        \E done \in {storeSecret(fsys, vault, secret, remember, iv)} :
            /\ IsOpen(vault)
            /\ vault = OwnerVault => Len(calls) < MaxStores
            /\ fsys' = done.fs
            /\ calls' = IF vault = OwnerVault
                        THEN Append(calls, [secret |-> secret, remember |-> remember,
                                            changed |-> done.fs # fsys])
                        ELSE calls
            /\ fn' = "storeSecret"
            /\ input' = [vault |-> vault, secret |-> secret, remember |-> remember]
            /\ output' = Done(done.result)
            /\ UNCHANGED nextTemp

GetSecretCall ==
    \E vault \in Vaults, id \in SecretIds :
        /\ IsOpen(vault)
        /\ fn' = "getSecret"
        /\ input' = [vault |-> vault, id |-> id]
        /\ output' = Done(getSecret(fsys, vault, id))
        /\ UNCHANGED <<fsys, nextTemp, calls>>

LoadAllCall ==
    \E vault \in Vaults :
        /\ IsOpen(vault)
        /\ fn' = "loadAll"
        /\ input' = [vault |-> vault]
        /\ output' = Done(loadAll(fsys, vault))
        /\ UNCHANGED <<fsys, nextTemp, calls>>

NextVault ==
    \/ StoreSecretCall
    \/ GetSecretCall
    \/ LoadAllCall

SpecVault == InitVault /\ [][NextVault]_vars

(***************************************************************************)
(* Claims about the vault (specification SpecVault).                       *)
(***************************************************************************)
\* The owner's storeSecret calls for id that were made with remember = true.
Remembered(id) ==
    SelectSeq(calls, LAMBDA call : call.remember /\ call.secret.id = id)

\* What getSecret(id) is to return after the calls so far.
ExpectedSecret(id) ==
    IF Remembered(id) = <<>> THEN <<>>
    ELSE <<Remembered(id)[Len(Remembered(id))].secret>>

\* C25: after any sequence of storeSecret calls on one vault file with one
\* master key, getSecret(id) returns the value of the most recent storeSecret
\* for that id made with remember = true and undefined when there was none,
\* the vault holds at most one secret per id, and a storeSecret with
\* remember = false leaves the vault file unchanged, not even creating it.
C25_VaultKeepsLastRemembered ==
    /\ \A id \in SecretIds :
          getSecret(fsys, OwnerVault, id) = VaultReturned(ExpectedSecret(id))
    /\ \E held \in {loadAll(fsys, OwnerVault)} :
          /\ ~held.threw
          /\ \A i, j \in 1..Len(held.value) :
                held.value[i].id = held.value[j].id => i = j
    /\ \A i \in 1..Len(calls) : ~calls[i].remember => ~calls[i].changed
    /\ (\A i \in 1..Len(calls) : ~calls[i].remember) => ~existsSync(fsys, VaultPath)

\* A secret was stored again under an id the vault held with another value,
\* and the vault returns the later value.
C25_Witness ==
    /\ fn = "getSecret" /\ input.vault = OwnerVault
    /\ Len(Remembered(input.id)) >= 2
    /\ Remembered(input.id)[1].secret.value # ExpectedSecret(input.id)[1].value
    /\ output = Done(VaultReturned(ExpectedSecret(input.id)))

\* C26 as stated: every storeSecret of a vault opened with another master
\* key than the one that wrote the file fails.
C26_EveryWrongKeyStoreFails ==
    (fn = "storeSecret" /\ input.vault = OtherVault) => output.value.threw

\* C26: a vault opened with a master key different from the one that wrote
\* the file fails every loadAll and getSecret with an error starting 'Failed
\* to read vault' and never returns a secret; its storeSecret with remember =
\* true fails in the same way, with remember = false it returns without
\* reading the file, and in both cases the vault file is left unchanged.
C26_WrongKeyIsRejected ==
    [][ input'.vault = OtherVault =>
          /\ fsys' = fsys
          /\ output'.value.value = <<>>
          /\ (fn' \in {"loadAll", "getSecret"} \/ input'.remember)
                => /\ output'.value.threw
                   /\ StartsWith(output'.value.error, "Failed to read vault")
          /\ (fn' = "storeSecret" /\ ~input'.remember) => ~output'.value.threw
      ]_vars

\* The other vault asked for a secret that the file holds, and stored one
\* with remember = true, and failed.
C26_Witness ==
    /\ input.vault = OtherVault
    /\ fn = "storeSecret" /\ input.remember
    /\ output.value.threw
    /\ ExpectedSecret(input.secret.id) # <<>>
    /\ ExpectedSecret(input.secret.id)[1].value # input.secret.value

(***************************************************************************)
(* Privacy helpers (src/src/core/compression/engine.ts, lines 227 to 275). *)
(***************************************************************************)
\* defaultRules: the keys to redact, authorization with the pattern
\* /^Bearer\s+.+/i
defaultRules ==
    <<[key |-> "password", pattern |-> "none"],
      [key |-> "token", pattern |-> "none"],
      [key |-> "secret", pattern |-> "none"],
      [key |-> "authorization", pattern |-> "bearer"]>>

\* Faulty variant of isTelemetryAllowed: privacy mode is not looked at.
isTelemetryAllowedIgnoringPrivacy(settings) == settings.telemetryLevel = "full"

isTelemetryAllowed(settings) ==
    IF settings.privacyMode THEN FALSE ELSE settings.telemetryLevel = "full"

\* /^Bearer\s+.+/i.test(value): 'bearer' in any case, then white space, then
\* a character that is not a line end after some of that white space.
BearerPatternTest(value) ==
    /\ ToLowerCase(SubSeq(value, 1, Min({6, Len(value)}))) = "bearer"
    /\ \E k \in 7..(Len(value) - 1) :
          /\ \A j \in 7..k : CharAt(value, j) \in WhiteSpace
          /\ CharAt(value, k + 1) \notin {"\n", "\r"}

\* The three characters the source puts between the two slices, in ASCII.
Ellipsis == "..."

\* redactValue(value, pattern)
redactValue(value, pattern) ==
    IF value.t # "string" THEN "***"
    ELSE IF pattern = "bearer" /\ ~BearerPatternTest(value.s) THEN "***"
    ELSE IF Len(value.s) > 8
         THEN SubSeq(value.s, 1, 3) \o Ellipsis
                  \o SubSeq(value.s, Len(value.s) - 1, Len(value.s))
         ELSE "***"

\* The loop of redactPayload from rule i on, clone being the copy so far.
RECURSIVE ApplyRules(_, _, _)
ApplyRules(clone, rules, i) ==
    IF i > Len(rules) THEN clone
    ELSE LET key == rules[i].key
         IN  IF key \in DOMAIN clone /\ clone[key] # JUndefined
             THEN ApplyRules([clone EXCEPT ![key] =
                                 JStr(redactValue(clone[key], rules[i].pattern))],
                             rules, i + 1)
             ELSE ApplyRules(clone, rules, i + 1)

\* Faulty variant of redactPayload: the rules are applied to the payload itself.
redactPayloadInPlace(payload, rules) ==
    [payload |-> ApplyRules(payload, rules, 1), result |-> ApplyRules(payload, rules, 1)]

\* redactPayload(payload, rules): the object returned, and the payload object
\* as the call leaves it.
redactPayload(payload, rules) ==
    [payload |-> payload, result |-> ApplyRules(payload, rules, 1)]

buildPrivacySummary(settings) ==
    [telemetryAllowed |-> isTelemetryAllowed(settings),
     strippingMetadata |-> settings.stripMetadata,
     modeLabel |-> IF settings.privacyMode THEN "Privacy mode" ELSE "Standard mode"]

(***************************************************************************)
(* Specification SpecPrivacy: the privacy helpers applied to the settings  *)
(* and the payload object that input holds.                                *)
(***************************************************************************)
PrivacySettings ==
    [privacyMode : BOOLEAN, stripMetadata : BOOLEAN, telemetryLevel : {"minimal", "full"}]

\* A field that the payload does not have.
Absent == [t |-> "absent", b |-> FALSE, n |-> 0, s |-> "", o |-> <<>>]

\* The object with the fields of a record of choices that are not Absent.
PayloadOf(choices) ==
    [k \in {f \in DOMAIN choices : choices[f] # Absent} |-> choices[k]]

PayloadInputs ==
    {PayloadOf(choices) : choices \in
        [password : {Absent, JUndefined, JNull, JNum(1234567890), JStr("***"),
                     JStr("hunter2"), JStr("super-secret")},
         token : {Absent, JStr("abcdef-123456")},
         authorization : {Absent, JStr("Bearer abcdefgh"), JStr("bearer  "),
                          JStr("Basic abcdefgh"), JStr("Bearer x"), JStr("***")},
         Password : {Absent, JStr("super-secret")},
         bucket : {Absent, JStr("forgezip-private")}]}

InitPrivacy ==
    /\ fsys = [q \in {} |-> DirEntry]
    /\ nextTemp = 0
    /\ calls = [c \in Calls |-> IdleCall]
    /\ fn = "none"
    /\ \E settings \in PrivacySettings, payload \in PayloadInputs :
          input = [settings |-> settings, payload |-> payload]
    /\ output = Pending

IsTelemetryAllowedCall ==
    /\ fn' = "isTelemetryAllowed"
    /\ output' = Done(isTelemetryAllowed(input.settings))
    /\ UNCHANGED <<fsys, nextTemp, calls, input>>

BuildPrivacySummaryCall ==
    /\ fn' = "buildPrivacySummary"
    /\ output' = Done(buildPrivacySummary(input.settings))
    /\ UNCHANGED <<fsys, nextTemp, calls, input>>

RedactPayloadCall ==
    LET done == redactPayload(input.payload, defaultRules)
    IN  /\ fn' = "redactPayload"
        /\ input' = [input EXCEPT !.payload = done.payload]
        /\ output' = Done(done.result)
        /\ UNCHANGED <<fsys, nextTemp, calls>>

NextPrivacy ==
    \/ IsTelemetryAllowedCall
    \/ BuildPrivacySummaryCall
    \/ RedactPayloadCall

SpecPrivacy == InitPrivacy /\ [][NextPrivacy]_vars

(***************************************************************************)
(* Claims about the privacy helpers (specification SpecPrivacy).           *)
(***************************************************************************)
\* C27: isTelemetryAllowed is true if and only if privacyMode is false and
\* telemetryLevel is 'full'; whenever privacy mode is on, telemetry is never
\* allowed, and buildPrivacySummary reports that same value as
\* telemetryAllowed.
C27_TelemetryOnlyOutsidePrivacyMode ==
    /\ fn = "isTelemetryAllowed" =>
          /\ output.value = (~input.settings.privacyMode
                                /\ input.settings.telemetryLevel = "full")
          /\ input.settings.privacyMode => output.value = FALSE
    /\ fn = "buildPrivacySummary" =>
          /\ output.value.telemetryAllowed
                = (~input.settings.privacyMode /\ input.settings.telemetryLevel = "full")
          /\ input.settings.privacyMode => ~output.value.telemetryAllowed

\* The summary of settings with privacy mode on and the level 'full' says
\* that telemetry is not allowed.
C27_Witness ==
    /\ fn = "buildPrivacySummary"
    /\ input.settings.privacyMode /\ input.settings.telemetryLevel = "full"
    /\ output.value.telemetryAllowed = FALSE

SensitiveKeys == {"password", "token", "secret", "authorization"}

\* The fields of a payload that redactPayload is to mask.
FieldsToMask(payload) == {k \in DOMAIN payload \cap SensitiveKeys : payload[k] # JUndefined}

\* C28 as stated: every present, defined field named password, token, secret
\* or authorization is replaced by a value different from the original one.
C28_MaskAlwaysDiffers ==
    [][ fn' = "redactPayload" =>
          \A k \in FieldsToMask(input.payload) : output'.value[k] # input.payload[k]
      ]_vars

\* Whether a value is shown in part: a string of more than 8 characters,
\* which under authorization starts like a Bearer header.
IsShownInPart(k, value) ==
    /\ value.t = "string" /\ Len(value.s) > 8
    /\ k = "authorization" =>
          /\ ToLowerCase(SubSeq(value.s, 1, 6)) = "bearer"
          /\ CharAt(value.s, 7) \in WhiteSpace

\* C28: redactPayload returns a copy in which every present, defined field
\* named password, token, secret or authorization is replaced by a mask, the
\* string '***' or, for a string of more than 8 characters, its first 3 and
\* last 2 characters around an ellipsis; the mask differs from the original
\* value unless that is the string '***' itself; every other field is equal
\* to the input's, and the input object itself is not modified.
C28_RedactMasksACopy ==
    [][ fn' = "redactPayload" =>
          /\ input' = input
          /\ DOMAIN output'.value = DOMAIN input.payload
          /\ \A k \in DOMAIN input.payload \ FieldsToMask(input.payload) :
                output'.value[k] = input.payload[k]
          /\ \A k \in FieldsToMask(input.payload) :
                \E before \in {input.payload[k]}, after \in {output'.value[k]} :
                    /\ after.t = "string"
                    /\ IF IsShownInPart(k, before)
                       THEN /\ Len(after.s) = 8
                            /\ SubSeq(after.s, 1, 3) = SubSeq(before.s, 1, 3)
                            /\ SubSeq(after.s, 7, 8)
                                  = SubSeq(before.s, Len(before.s) - 1, Len(before.s))
                       ELSE after.s = "***"
                    /\ before # JStr("***") => after # before
      ]_vars

\* A payload with a long password, a Bearer header and fields that stay
\* was redacted.
C28_Witness ==
    /\ fn = "redactPayload"
    /\ "password" \in DOMAIN input.payload /\ input.payload.password = JStr("super-secret")
    /\ "authorization" \in DOMAIN input.payload
    /\ input.payload.authorization = JStr("Bearer abcdefgh")
    /\ {"Password", "bucket"} \subseteq DOMAIN input.payload
    /\ output.value.password = JStr("sup...et")
    /\ output.value.authorization = JStr("Bea...gh")
    /\ output.value.bucket = input.payload.bucket

(***************************************************************************)
(* Specification SpecPreview: previews of one archive, for entry paths as  *)
(* a caller can write them (rooted, relative, with '..' segments, empty).  *)
(***************************************************************************)
PreviewEntryPaths == {"x", "/d/e", "//x", "../x", "d/../../x", "d/..", ""}

NextPreview ==
    \E c \in Calls :
        \/ \E e \in PreviewEntryPaths :
               PreviewCall(c, [NoPayload EXCEPT !.archivePath = "a.7z", !.entryPath = e])
        \/ PreviewMkdtemp(c)
        \/ \E chunk \in StdoutChunks : StdoutData(c, chunk)
        \/ \E chunk \in StderrChunks : StderrData(c, chunk)
        \/ \E error \in LaunchErrors : ChildError(c, error)
        \/ \E code \in ExitCodes : ChildClose(c, code)
        \/ Discard(c)

SpecPreview == Init /\ [][NextPreview]_vars

\* Whether the path p is the directory dir or lies below it.
IsInside(p, dir) == p = dir \/ StartsWith(p, dir \o "/")

\* C29: the extractedPath returned by a successful preview always lies inside
\* the temporary directory created by that call, for every entryPath the
\* caller can supply.
C29_ExtractedPathInsideTempDir ==
    \A c \in Calls :
        (calls[c].op = "preview" /\ calls[c].pc = "done"
            /\ calls[c].outcome = "returned")
        => IsInside(calls[c].value.extractedPath, calls[c].tempDir)

(***************************************************************************)
(* The renderer's toolbar (src/src/renderer/src/App.tsx).                  *)
(* Specification SpecRenderer: output is the React state of App that the   *)
(* toolbar reads (isBusy, whether an archive is loaded, whether entries    *)
(* are selected), calls the position of each toolbar handler (one run of   *)
(* each at a time). The choosers are opened without a parent window        *)
(* (src/src/main/archive.ts), so the window takes clicks while one is open.*)
(***************************************************************************)
Handlers == {"open", "add", "extract", "test", "view", "delete"}

IdleHandler == [pc |-> "idle", hadArchive |-> FALSE]

\* The archive operations of the handlers in flight: the handler's own
\* (pc "running") or the listing of refreshArchive (pc "refreshing").
InFlight == {h \in Handlers : calls[h].pc \in {"running", "refreshing"}}

\* toolbarButtons: the disabled property of each button
IsDisabled(h) ==
    CASE h \in {"open", "add"} -> output.isBusy
      [] h \in {"extract", "test"} -> output.isBusy \/ ~output.archivePath
      [] h = "view" -> output.isBusy \/ ~output.archivePath \/ ~output.selected
      [] h = "delete" -> output.isBusy \/ ~output.selected

InitRenderer ==
    /\ fsys = InitialFiles
    /\ nextTemp = 0
    /\ calls = [h \in Handlers |-> IdleHandler]
    /\ fn = "none"
    /\ input = <<>>
    /\ output = [isBusy |-> FALSE, archivePath |-> FALSE, selected |-> FALSE]

\* A click on an enabled button: the handler runs to its first await.
\* handleOpenArchive, handleAddFiles and handleExtract open a chooser;
\* handleTest, handleView and handleDelete check their state, set isBusy and
\* call the bridge.
Click(h) ==
    /\ calls[h].pc = "idle"
    /\ ~IsDisabled(h)
    /\ fn' = h
    /\ UNCHANGED <<fsys, nextTemp, input>>
    /\ IF h \in {"open", "add"} \/ (h = "extract" /\ output.archivePath)
       THEN /\ calls' = [calls EXCEPT ![h] = [pc |-> "choosing",
                                              hadArchive |-> output.archivePath]]
            /\ UNCHANGED output
       ELSE IF \/ h = "test" /\ output.archivePath
               \/ h \in {"view", "delete"} /\ output.archivePath /\ output.selected
       THEN /\ calls' = [calls EXCEPT ![h] = [pc |-> "running",
                                              hadArchive |-> output.archivePath]]
            /\ output' = [output EXCEPT !.isBusy = TRUE]
       ELSE UNCHANGED <<calls, output>>

\* The chooser of a handler closes, with a choice or without: without, the
\* handler returns; handleOpenArchive calls refreshArchive, handleExtract
\* and handleAddFiles set isBusy and call the bridge, handleAddFiles with no
\* archive loaded first asks where to save.
ChooserCloses(h, chosen) ==
    /\ calls[h].pc = "choosing"
    /\ fn' = h
    /\ UNCHANGED <<fsys, nextTemp, input>>
    /\ IF ~chosen
       THEN /\ calls' = [calls EXCEPT ![h] = IdleHandler]
            /\ UNCHANGED output
       ELSE IF h = "add" /\ ~calls[h].hadArchive
       THEN /\ calls' = [calls EXCEPT ![h].pc = "choosingSave"]
            /\ UNCHANGED output
       ELSE /\ calls' = [calls EXCEPT ![h].pc =
                            IF h = "open" THEN "refreshing" ELSE "running"]
            /\ output' = [output EXCEPT !.isBusy = TRUE]

\* chooseSaveArchive resolves: pickSinglePath reads filePaths, which the
\* result of showSaveDialog does not have, so it gives null and
\* handleAddFiles returns.
SaveChooserCloses ==
    /\ calls["add"].pc = "choosingSave"
    /\ calls' = [calls EXCEPT !["add"] = IdleHandler]
    /\ fn' = "add"
    /\ UNCHANGED <<fsys, nextTemp, input, output>>

\* The bridge call of a handler settles. handleAddFiles and handleDelete go
\* on to refreshArchive when it resolved, which sets isBusy; otherwise, and
\* in the other handlers, finally clears isBusy.
OperationSettles(h, resolved) ==
    /\ calls[h].pc = "running"
    /\ fn' = h
    /\ UNCHANGED <<fsys, nextTemp, input>>
    /\ IF resolved /\ h \in {"add", "delete"}
       THEN /\ calls' = [calls EXCEPT ![h].pc = "refreshing"]
            /\ output' = [output EXCEPT !.isBusy = TRUE]
       ELSE /\ calls' = [calls EXCEPT ![h] = IdleHandler]
            /\ output' = [output EXCEPT !.isBusy = FALSE]

\* listArchive of refreshArchive settles: when it resolved the archive is
\* loaded and the selection cleared; finally clears isBusy, and so does the
\* finally of the handler that awaited refreshArchive.
ListSettles(h, resolved) ==
    /\ calls[h].pc = "refreshing"
    /\ calls' = [calls EXCEPT ![h] = IdleHandler]
    /\ output' = IF resolved
                 THEN [isBusy |-> FALSE, archivePath |-> TRUE, selected |-> FALSE]
                 ELSE [output EXCEPT !.isBusy = FALSE]
    /\ fn' = h
    /\ UNCHANGED <<fsys, nextTemp, input>>

\* The user changes the selection in the entry list of a loaded archive.
SelectEntries(selected) ==
    /\ output.archivePath
    /\ output' = [output EXCEPT !.selected = selected]
    /\ fn' = "select"
    /\ UNCHANGED <<fsys, nextTemp, calls, input>>

NextRenderer ==
    \/ \E h \in Handlers : Click(h)
    \/ \E h \in Handlers, chosen \in BOOLEAN : ChooserCloses(h, chosen)
    \/ SaveChooserCloses
    \/ \E h \in Handlers, resolved \in BOOLEAN : OperationSettles(h, resolved)
    \/ \E h \in Handlers, resolved \in BOOLEAN : ListSettles(h, resolved)
    \/ \E selected \in BOOLEAN : SelectEntries(selected)

SpecRenderer == InitRenderer /\ [][NextRenderer]_vars

\* C30: in the renderer, isBusy is true whenever an archive operation started
\* from the toolbar (list, add, extract, delete, test, preview) is in flight,
\* so at most one such operation is in flight at any time, and isBusy is
\* false again once every started operation has completed, whether it
\* succeeded or failed.
C30_BusyWhileInFlight ==
    /\ InFlight # {} => output.isBusy
    /\ Cardinality(InFlight) <= 1
    /\ InFlight = {} => ~output.isBusy

====
